---- MODULE Spec2Model ----
(***************************************************************************)
(* Verification model of the grinbox relay (vault713/grinbox).             *)
(*                                                                         *)
(* Spec: the relay node.  One ws event-loop thread runs the handlers of    *)
(* all inbound connections (AsyncServer::on_open / on_message / drop);     *)
(* a PostSlate to a non-local recipient blocks that thread inside          *)
(* ws::connect until the federation exchange ends.  The broker adapter     *)
(* (Broker::start request loop), the futures it spawns (Consumer::start,   *)
(* handle_post_message, channel.close), the RabbitMQ queues and the        *)
(* response loops of AsyncServer::init run concurrently with it.           *)
(*                                                                         *)
(* Text is modelled as a sequence of atoms so that String::push_str is     *)
(* sequence concatenation; a signature is the pair (signing key, signed    *)
(* text), which is what secp verification distinguishes.                   *)
(***************************************************************************)
EXTENDS Integers, Sequences, FiniteSets, TLC

(* ------------------------------ bounds -------------------------------- *)
MaxReq == 2           \* Spec: requests handled by on_message
MaxDeliveryReq == 3   \* SpecDelivery: requests handled by on_message
MaxResubscribeReq == 4  \* SpecResubscribe: requests handled by on_message
MaxMsg == 2           \* PostSlates that pass the signature check
MaxPeerFrames == 2     \* frames the peer relay sends in one federation exchange
MaxAttempts == 3      \* SpecClient: connect() calls of one subscribe() run
MaxStops == 1         \* SpecClient: calls of unsubscribe()
MaxBackoffAttempts == 66  \* SpecBackoff: connect() calls of the run
MaxClientFrames == 2  \* SpecSession: frames the relay sends to the subscriber
MaxPortDigits == 5    \* SpecAddress: digits of the port of an address text
MaxPolls == 2         \* SpecStomp: calls of Session::poll
MaxSends == 1         \* SpecStomp: calls of the sending API of Session
MaxValueLen == 3      \* SpecHeader: characters of a header value

(* ------------------------- program constants -------------------------- *)
MAX_SUBSCRIPTIONS == 1
grinbox_port == 13420
DEFAULT_GRINBOX_PORT == 443
U16_MAX == 65535
U64_BITS == 64                   \* the width of 2u64 in 2u64.pow(retries)
BACKOFF_CAP_SECS == 32           \* std::cmp::min(32, ..) of the reconnect loop
grinbox_domain == "127.0.0.1"
DEFAULT_GRINBOX_DOMAIN == "grinbox.io"
get_challenge_raw == <<"7WUDtkSaKyGRUnQ22rE3QUXChV8DmA6NnunDYP4vheTpc">>

(* ------------------------------ universe ------------------------------ *)
Conns == {"c1", "c2"}            \* AsyncServer.id (a fresh uuid per connection)
Keys == {"pkA", "pkB"}           \* base58check public keys that decode
BadKey == "notbase58"            \* a key text from_base58_check_raw rejects
NoDomain == ""                   \* the regex group `domain` did not match
NoPort == -1                     \* the regex group `port` did not match
EmptyPort == -2                  \* the group matched the empty string ("...@d:")
NoTtl == -1                      \* message_expiration_in_seconds = None
Body1 == <<"payload">>
Body2 == Body1 \o get_challenge_raw
NoText == << >>

(* --------------------------- crypto facade ---------------------------- *)
\* verify_signature(challenge, &signature, &public_key) of utils::crypto:
\* a signature verifies exactly for the key and the text it was made for.
Sign(msg, pk) == [kind |-> "hex", pk |-> pk, msg |-> msg]

verify_signature_raw(msg, sig, pk) == sig.pk = pk /\ sig.msg = msg

\* Signature texts a client can put on the wire: the hex of a signature,
\* an even-length text that is not hex, and the empty text.
NotHex == [kind |-> "nothex", pk |-> "none", msg |-> NoText]
EmptySig == [kind |-> "empty", pk |-> "none", msg |-> NoText]

SubscribeSigs ==
    {Sign(get_challenge_raw, k) : k \in Keys} \cup {Sign(Body1, "pkA"), NotHex, EmptySig}

PostSigs ==
    {Sign(m, "pkB") : m \in {get_challenge_raw, Body1, Body2}}
    \cup {Sign(Body1, "pkA"), NotHex, EmptySig}

\* utils::from_hex: "Ok" for hex, "Err" for odd length or a non-hex digit,
\* "Panic" when &hex_str[..2] slices past the end of the empty text.
from_hex(sigtext) ==
    CASE sigtext.kind = "hex" -> "Ok"
      [] sigtext.kind = "empty" -> "Panic"
      [] OTHER -> "Err"

\* Signature::from_hex (utils::secp): decodes the text with utils::from_hex
\* and builds the signature from the bytes.
Signature_from_hex(sigtext) == from_hex(sigtext)

from_base58_check_raw(keytext) == IF keytext \in Keys THEN "Ok" ELSE "Err"

\* AsyncServer::verify_signature: "Ok", "Err" or "Panic".
verify_signature(public_key, challenge, signature) ==
    IF from_base58_check_raw(public_key) = "Err" THEN "Err"
    ELSE IF Signature_from_hex(signature) # "Ok" THEN Signature_from_hex(signature)
    ELSE IF verify_signature_raw(challenge, signature, public_key) THEN "Ok"
    ELSE "Err"

(* ------------------------------ addresses ----------------------------- *)
\* An address text as GRINBOX_ADDRESS_REGEX splits it.
AddrText(scheme, pk, domain, port) ==
    [matches |-> TRUE, scheme |-> scheme, pk |-> pk, domain |-> domain, port |-> port]

Garbage == [matches |-> FALSE, scheme |-> FALSE, pk |-> BadKey, domain |-> NoDomain, port |-> NoPort]

\* GrinboxAddress::from_str_raw: "Err" when the regex or the key fails,
\* "Panic" when u16::from_str_radix(port).unwrap() fails, else the address.
from_str_raw(t) ==
    IF ~t.matches THEN [res |-> "Err"]
    ELSE IF t.port = EmptyPort \/ t.port > U16_MAX THEN [res |-> "Panic"]
    ELSE IF from_base58_check_raw(t.pk) = "Err" THEN [res |-> "Err"]
    ELSE [res |-> "Ok",
          public_key |-> t.pk,
          domain |-> IF t.domain = NoDomain THEN DEFAULT_GRINBOX_DOMAIN ELSE t.domain,
          port |-> IF t.port = NoPort THEN DEFAULT_GRINBOX_PORT ELSE t.port]

\* Faulty variant: the domain and the port are always written.
DisplayInFull(a) == AddrText(TRUE, a.public_key, a.domain, a.port)

\* Display for GrinboxAddress, as the text it writes.
Display(a) ==
    IF a.domain # DEFAULT_GRINBOX_DOMAIN \/ a.port # DEFAULT_GRINBOX_PORT
    THEN AddrText(TRUE, a.public_key, a.domain,
                  IF a.port # DEFAULT_GRINBOX_PORT THEN a.port ELSE NoPort)
    ELSE AddrText(TRUE, a.public_key, NoDomain, NoPort)

\* GrinboxAddress::stripped: the displayed text without its first 10 bytes.
stripped(a) == [Display(a) EXCEPT !.scheme = FALSE]

\* An address text as characters: the optional `grinbox://`, the key, the
\* optional `@domain` and the optional `:port` with its decimal digits
\* (`[0-9]*`: possibly none, possibly with leading zeros).
WireText(scheme, pk, domain, hasPort, digits) ==
    [matches |-> TRUE, scheme |-> scheme, pk |-> pk, domain |-> domain,
     hasPort |-> hasPort, digits |-> digits]

WireGarbage ==
    [matches |-> FALSE, scheme |-> FALSE, pk |-> BadKey, domain |-> NoDomain,
     hasPort |-> FALSE, digits |-> << >>]

\* The number a digit text denotes in radix 10.
RECURSIVE DigitsValue(_)
DigitsValue(digits) ==
    IF digits = << >> THEN 0
    ELSE 10 * DigitsValue(SubSeq(digits, 1, Len(digits) - 1)) + digits[Len(digits)]

\* re.captures(s): the groups public_key, domain and port of the text.
captures(w) ==
    IF ~w.matches THEN Garbage
    ELSE AddrText(w.scheme, w.pk, w.domain,
                  IF ~w.hasPort THEN NoPort
                  ELSE IF w.digits = << >> THEN EmptyPort
                  ELSE DigitsValue(w.digits))

\* `{}` of a u16: its decimal digits, without leading zeros.
RECURSIVE to_string(_)
to_string(n) == IF n < 10 THEN <<n>> ELSE Append(to_string(n \div 10), n % 10)

\* The characters write!(f, ..) produces for a displayed address.
Written(t) ==
    WireText(t.scheme, t.pk, t.domain, t.port # NoPort,
             IF t.port = NoPort THEN << >> ELSE to_string(t.port))


(* ------------------------------- frames ------------------------------- *)
OkFrame == [type |-> "Ok"]
ErrorFrame(kind) == [type |-> "Error", kind |-> kind]
ChallengeFrame == [type |-> "Challenge", str |-> get_challenge_raw]
SlateFrame(from, str, challenge, signature) ==
    [type |-> "Slate", from |-> from, str |-> str, challenge |-> challenge,
     signature |-> signature]

\* serde_json::to_string(&SignedPayload): the fields in declaration order.
EncodePayload(str, challenge, signature) ==
    <<[name |-> "str", val |-> str],
      [name |-> "challenge", val |-> challenge],
      [name |-> "signature", val |-> signature]>>

\* serde_json::from_str::<SignedPayload>: each field looked up by name.
Field(json, name) == (CHOOSE i \in 1..Len(json) : json[i].name = name)

DecodePayload(json) ==
    IF \A n \in {"str", "challenge", "signature"} : \E i \in 1..Len(json) : json[i].name = n
    THEN [ok |-> TRUE,
          str |-> json[Field(json, "str")].val,
          challenge |-> json[Field(json, "challenge")].val,
          signature |-> json[Field(json, "signature")].val]
    ELSE [ok |-> FALSE, str |-> NoText, challenge |-> NoText, signature |-> NoText]

(* ------------------------------ requests ------------------------------ *)
FromTexts ==
    {AddrText(FALSE, "pkB", "h.example", 3000),
     AddrText(TRUE, "pkB", DEFAULT_GRINBOX_DOMAIN, DEFAULT_GRINBOX_PORT),
     Garbage}

ToTexts ==
    {AddrText(FALSE, "pkA", grinbox_domain, grinbox_port),
     AddrText(FALSE, "pkA", grinbox_domain, NoPort),
     AddrText(FALSE, "pkA", "remote.example", grinbox_port),
     AddrText(FALSE, "pkA", grinbox_domain, EmptyPort),
     Garbage}

Ttls == {NoTtl, 60}

ChallengeReq == [type |-> "Challenge"]
MalformedReq == [type |-> "Malformed"]
SubscribeReq(address, signature) ==
    [type |-> "Subscribe", address |-> address, signature |-> signature]
UnsubscribeReq(address) == [type |-> "Unsubscribe", address |-> address]
PostSlateReq(from, to, str, signature, ttl) ==
    [type |-> "PostSlate", from |-> from, to |-> to, str |-> str,
     signature |-> signature, message_expiration_in_seconds |-> ttl]

\* Well-formed local traffic: valid Subscribes for pkA and pkB, an
\* Unsubscribe for pkA and a validly signed PostSlate from pkB to pkA at
\* this relay.
SenderText == AddrText(FALSE, "pkB", "h.example", 3000)
LocalText == AddrText(FALSE, "pkA", grinbox_domain, grinbox_port)

DeliveryRequests ==
    {SubscribeReq("pkA", Sign(get_challenge_raw, "pkA")),
     SubscribeReq("pkB", Sign(get_challenge_raw, "pkB")),
     UnsubscribeReq("pkA"),
     PostSlateReq(SenderText, LocalText, Body1, Sign(Body1, "pkB"), NoTtl)}

\* Everything a client can send: each request type, every sender and
\* recipient text under every signature text, both bodies, both ttl forms.
Requests ==
    {ChallengeReq, MalformedReq}
    \cup {SubscribeReq(a, s) : a \in Keys \cup {BadKey}, s \in SubscribeSigs}
    \cup {UnsubscribeReq(a) : a \in Keys}
    \cup {PostSlateReq(f, t, Body1, s, NoTtl) :
            f \in FromTexts, t \in ToTexts, s \in PostSigs}
    \cup {PostSlateReq(SenderText, LocalText, Body2, s, NoTtl) : s \in PostSigs}
    \cup {PostSlateReq(SenderText, t, Body1, Sign(Body1, "pkB"), l) :
            t \in ToTexts, l \in Ttls}

\* The traffic of a second client of the same address.
RivalRequests == {SubscribeReq("pkA", Sign(get_challenge_raw, "pkA"))}

(* ======================= broker session (STOMP) ======================= *)
\* frame::Transmission
HeartBeat == [t |-> "HeartBeat"]
CompleteFrame(frame) == [t |-> "CompleteFrame", frame |-> frame]
NotReady == [t |-> "NotReady"]

\* A frame, by its command and the headers the session looks at:
\* `subscription`, `receipt-id` and `heart-beat` ("none", <<0, 0>>: absent).
Frame(command, subscription, receipt_id, heart_beat) ==
    [command |-> command, subscription |-> subscription,
     receipt_id |-> receipt_id, heart_beat |-> heart_beat]

SubId == "stomp-rs/0"
DisconnectReceipt == "msg/disconnect"
SendReceipt == "rcpt"

ConnectFrame == Frame("CONNECT", "none", "none", <<0, 0>>)
DisconnectFrame == Frame("DISCONNECT", "none", DisconnectReceipt, <<0, 0>>)
UnsubscribeFrame == Frame("UNSUBSCRIBE", SubId, "none", <<0, 0>>)
SendFrame(receipt) == Frame("SEND", "none", receipt, <<0, 0>>)

\* What the broker can send.
ServerFrames ==
    {Frame("CONNECTED", "none", "none", <<0, 0>>),
     Frame("CONNECTED", "none", "none", <<1000, 1000>>),
     Frame("MESSAGE", SubId, "none", <<0, 0>>),
     Frame("MESSAGE", "none", "none", <<0, 0>>),
     Frame("RECEIPT", "none", DisconnectReceipt, <<0, 0>>),
     Frame("RECEIPT", "none", SendReceipt, <<0, 0>>),
     Frame("ERROR", "none", "none", <<0, 0>>)}

ServerTransmissions == {HeartBeat} \cup {CompleteFrame(f) : f \in ServerFrames}

\* SessionEvent
Disconnected(reason) == [ev |-> "Disconnected", reason |-> reason]
FrameEvent(ev, frame) == [ev |-> ev, frame |-> frame]

\* Session::new over SessionState::new.  `written` and `emitted` are
\* history: the transmissions handed to the socket and the events poll
\* returned; `late` is history: what reached the session after it failed.
Session_new(heartbeat, subscriptions) ==
    [stream |-> "Connecting", heartbeat |-> heartbeat, events |-> << >>,
     rx_heartbeat |-> FALSE, tx_heartbeat |-> FALSE,
     subscriptions |-> subscriptions, outstanding_receipts |-> {},
     written |-> << >>, emitted |-> << >>, late |-> {},
     npoll |-> 0, nsend |-> 0]

\* Faulty variant: the failed session goes back to connecting.
on_disconnect_reconnecting(s, reason) ==
    [s EXCEPT !.events = Append(@, Disconnected(reason)),
              !.stream = "Connecting",
              !.tx_heartbeat = FALSE,
              !.rx_heartbeat = FALSE]

\* on_disconnect: push Disconnected, drop the stream and both timers.
on_disconnect(s, reason) ==
    [s EXCEPT !.events = Append(@, Disconnected(reason)),
              !.stream = "Failed",
              !.tx_heartbeat = FALSE,
              !.rx_heartbeat = FALSE]

\* send over _send: written when connected (a failure of start_send or
\* poll_complete disconnects), otherwise logged and discarded.
Session_send(s, tx, io) ==
    IF s.stream = "Connected"
    THEN IF io = "Ok" THEN [s EXCEPT !.written = Append(@, tx)]
         ELSE on_disconnect(s, "SendFailed")
    ELSE s

\* on_stream_ready: the CONNECT frame is sent.
on_stream_ready(s, io) == Session_send(s, CompleteFrame(ConnectFrame), io)

\* connection::heartbeat and select_heartbeat
heartbeat(client_ms, server_ms) ==
    IF client_ms = 0 \/ server_ms = 0 THEN 0
    ELSE IF client_ms > server_ms THEN client_ms ELSE server_ms

select_heartbeat(client_tx_ms, client_rx_ms, server_tx_ms, server_rx_ms) ==
    <<heartbeat(client_tx_ms, server_tx_ms), heartbeat(client_rx_ms, server_rx_ms)>>

on_connected_frame_received(s, connected_frame) ==
    LET agreed == select_heartbeat(s.heartbeat[1], s.heartbeat[2],
                                   connected_frame.heart_beat[1],
                                   connected_frame.heart_beat[2])
    IN  [s EXCEPT !.rx_heartbeat = agreed[2] # 0,
                  !.tx_heartbeat = agreed[1] # 0,
                  !.events = Append(@, [ev |-> "Connected"])]

handle_receipt(s, frame) ==
    IF frame.receipt_id = "none" THEN s
    ELSE LET s1 == IF frame.receipt_id = DisconnectReceipt
                   THEN on_disconnect(s, "Requested")
                   ELSE s
         IN  IF frame.receipt_id \in s1.outstanding_receipts
             THEN [s1 EXCEPT !.outstanding_receipts = @ \ {frame.receipt_id},
                             !.events = Append(@, FrameEvent("Receipt", frame))]
             ELSE s1

\* Session::on_message
Session_on_message(s, frame) ==
    IF frame.subscription # "none" /\ frame.subscription \in s.subscriptions
    THEN [s EXCEPT !.events = Append(@, FrameEvent("Message", frame))]
    ELSE [s EXCEPT !.events = Append(@, FrameEvent("Subscriptionless", frame))]

\* The body of the while loop of poll: one transmission is handled
\* (on_recv_data only re-arms the rx timer).
poll_dispatch(s, val) ==
    IF val.t = "HeartBeat" THEN s
    ELSE CASE val.frame.command = "ERROR" ->
                [s EXCEPT !.events = Append(@, FrameEvent("Error", val.frame))]
           [] val.frame.command = "RECEIPT" -> handle_receipt(s, val.frame)
           [] val.frame.command = "CONNECTED" ->
                on_connected_frame_received(s, val.frame)
           [] val.frame.command = "MESSAGE" -> Session_on_message(s, val.frame)
           [] OTHER -> [s EXCEPT !.events = Append(@, FrameEvent("Unknown", val.frame))]

\* poll_stream.  `feed` is what the transport does during this poll: the
\* outcome of the connect future, the transmissions ready to be read and
\* what follows them (nothing yet, end of stream, an error), the outcome
\* of writing and flushing, and the state of the two timers.
RECURSIVE poll_stream(_, _)
poll_stream(s, feed) ==
    CASE s.stream = "Connected" ->
           IF feed.items # << >>
           THEN [s |-> s, val |-> Head(feed.items),
                 feed |-> [feed EXCEPT !.items = Tail(@)]]
           ELSE [s |-> CASE feed.end = "Closed" -> on_disconnect(s, "ClosedByOtherSide")
                         [] feed.end = "Err" -> on_disconnect(s, "RecvFailed")
                         [] OTHER -> s,
                 val |-> NotReady, feed |-> feed]
      [] s.stream = "Connecting" ->
           CASE feed.connect = "Ready" ->
                  poll_stream(on_stream_ready([s EXCEPT !.stream = "Connected"],
                                              feed.send), feed)
             [] feed.connect = "Err" ->
                  [s |-> on_disconnect(s, "ConnectFailed"), val |-> NotReady,
                   feed |-> feed]
             [] OTHER -> [s |-> s, val |-> NotReady, feed |-> feed]
      [] OTHER -> [s |-> s, val |-> NotReady, feed |-> feed]

\* while let Async::Ready(Some(val)) = self.poll_stream() { .. }
RECURSIVE poll_while(_, _)
poll_while(s, feed) ==
    LET r == poll_stream(s, feed)
    IN  IF r.val = NotReady THEN r.s
        ELSE poll_while(poll_dispatch(r.s, r.val), r.feed)

\* reply_to_heartbeat
reply_to_heartbeat(s, io) == Session_send(s, HeartBeat, io)

poll_stream_complete(s, io) ==
    IF s.stream = "Connected" /\ io # "Ok" THEN on_disconnect(s, "SendFailed") ELSE s

\* self.events.pop_front(): the event poll returns, if any.
pop_front(s) ==
    IF s.events = << >> THEN s
    ELSE [s EXCEPT !.events = Tail(@), !.emitted = Append(@, Head(s.events))]

\* Stream::poll for Session.  An error of a timer is returned with `?`
\* before anything later in the function has run.
poll(s, feed) ==
    LET s1 == poll_while(s, feed)
        s2 == IF s1.rx_heartbeat /\ feed.rx = "Ready"
              THEN on_disconnect(s1, "HeartBeatTimeout")
              ELSE s1
        s3 == IF s2.tx_heartbeat /\ feed.tx = "Ready"
              THEN reply_to_heartbeat(s2, feed.send)
              ELSE s2
    IN  IF s1.rx_heartbeat /\ feed.rx = "Err" THEN s1
        ELSE IF s2.tx_heartbeat /\ feed.tx = "Err" THEN s2
        ELSE pop_front(poll_stream_complete(s3, feed.send))

(* --------------------------- header values ---------------------------- *)
\* Characters, by name: backslash, carriage return, line feed, colon, the
\* letters the escapes are written with, and a combining mark (a character
\* of Grapheme_Cluster_Break = Extend, such as U+0301).
BSL == "backslash"
CR == "CR"
LF == "LF"
COLON == "colon"
MARK == "combining mark"

ValueChars == {BSL, CR, LF, COLON, "c", MARK}

\* The first extended grapheme cluster of a non-empty text, as
\* UnicodeSegmentation::graphemes(value, true) cuts it: CR LF is one
\* cluster, a control character is a cluster of its own otherwise, and any
\* other character takes the combining marks that follow it.
RECURSIVE MarksFrom(_, _)
MarksFrom(value, i) ==
    IF i <= Len(value) /\ value[i] = MARK THEN MarksFrom(value, i + 1) ELSE i

ClusterEnd(value) ==
    IF value[1] = CR /\ Len(value) >= 2 /\ value[2] = LF THEN 2
    ELSE IF value[1] \in {CR, LF} THEN 1
    ELSE MarksFrom(value, 2) - 1

RECURSIVE graphemes(_)
graphemes(value) ==
    IF value = << >> THEN << >>
    ELSE <<SubSeq(value, 1, ClusterEnd(value))>>
         \o graphemes(SubSeq(value, ClusterEnd(value) + 1, Len(value)))

\* The match of encode_value on one grapheme.
EncodeGrapheme(grapheme) ==
    CASE grapheme = <<BSL>> -> <<BSL, BSL>>
      [] grapheme = <<CR>> -> <<BSL, "r">>
      [] grapheme = <<LF>> -> <<BSL, "n">>
      [] grapheme = <<COLON>> -> <<BSL, "c">>
      [] OTHER -> grapheme

RECURSIVE Flatten(_)
Flatten(parts) ==
    IF parts = << >> THEN << >> ELSE Head(parts) \o Flatten(Tail(parts))

\* Header::encode_value
encode_value(value) ==
    Flatten([i \in 1..Len(graphemes(value)) |-> EncodeGrapheme(graphemes(value)[i])])

\* No value has been handed to encode_value.
NoValue == [step |-> "idle", value |-> << >>, encoded |-> << >>]

(* ------------------------------- state -------------------------------- *)
VARIABLES
    cstate,             \* per connection: "new", "open" or "closed"
    subscriptions,      \* AsyncServer.subscriptions, its key set
    out,                \* Server.out: the frames written to the socket
    nreq,               \* requests handled so far
    nmsg,               \* PostSlates accepted so far
    crashed,            \* a handler panicked: the relay process is gone
    fed,                \* the federation exchange blocking the handler thread
    nats,               \* nats_sender: the adapter's request channel
    sinks,              \* per Subscribe: the sink and the Consumer made for it
    consumers,          \* Broker.consumers: subject -> consumer (0: none)
    posting,            \* spawned handle_post_message futures
    queue,              \* the durable RabbitMQ queue of each subject
    delivered,          \* history: Slate frames written, by message and sink
    gone,               \* history: messages consumed and then discarded
    due,                \* history: per message, its subject, the connections
                        \* subscribed to it when it was accepted and ever since,
                        \* and whether none was subscribed when it was accepted
    last,               \* history: the request on_message handled last
    inner,              \* GrinboxBroker.inner of the subscriber client
    client,             \* per subscribe() run: its reconnect loop thread
    nstop,              \* calls of unsubscribe() so far
    parsing,            \* an address text and what the library made of it
    stomp,              \* the STOMP Session of the broker module
    encoding,           \* a header value and what encode_value made of it
    worker              \* the adapter's worker thread: connecting, running, dead

vars == <<cstate, subscriptions, out, nreq, nmsg, crashed, fed, nats,
          sinks, consumers, posting, queue,
          delivered, gone, due, last, worker>>

sessionVars == <<cstate, subscriptions, out, nreq, nmsg, crashed, fed>>
adapterVars == <<nats, consumers, posting, worker>>
brokerVars == <<queue>>
historyVars == <<delivered, gone, due, last>>
clientVars == <<inner, client, nstop>>
libVars == <<parsing, stomp, encoding>>

FedIdle == [st |-> "idle"]

\* The subscribe() runs of one GrinboxClient: each start() spawns a thread.
Runs == {"r1", "r2"}

\* No address text has been handed to the library.
NoAddress ==
    [step |-> "idle", text |-> WireGarbage, parsed |-> [res |-> "none"],
     shown |-> WireGarbage, stripped |-> WireGarbage]

\* GrinboxBroker::new: inner is None.
NoSender == [run |-> "none", n |-> 0]

\* ConnectionMetadata::new
NewMetadata == [retries |-> 0, connected_at_least_once |-> FALSE]

\* A run before start(): no thread yet.  `log` is history: what happened to
\* the run ("open", "fail", "stop") and the handler events delivered;
\* `slept` is history: the seconds of the sleep entered last; `rcvd` and
\* `sent` are history: the frames on_message handled and the requests
\* written to the socket, each with the connect() call it belongs to.
\* `holds` is the set of mutexes whose guard the thread has in scope.
IdleRun ==
    [pc |-> "idle", meta |-> NewMetadata, attempts |-> 0, result |-> "Ok",
     log |-> << >>, slept |-> 0, rcvd |-> << >>, sent |-> << >>,
     holds |-> {}]

\* The relay once Broker::start and AsyncServer::init have returned and the
\* listener is bound, and the client after GrinboxBroker::new; `w` is how
\* far the adapter's worker thread has got with Broker::connect.
InitWith(w) ==
    /\ worker = w
    /\ cstate = [c \in Conns |-> "new"]
    /\ subscriptions = [c \in Conns |-> {}]
    /\ out = [c \in Conns |-> << >>]
    /\ nreq = 0
    /\ nmsg = 0
    /\ crashed = FALSE
    /\ fed = FedIdle
    /\ nats = << >>
    /\ sinks = << >>
    /\ consumers = [k \in Keys |-> 0]
    /\ posting = {}
    /\ queue = [k \in Keys |-> << >>]
    /\ delivered = {}
    /\ gone = {}
    /\ due = << >>
    /\ last = [n |-> 0]
    /\ inner = NoSender
    /\ client = [r \in Runs |-> IdleRun]
    /\ nstop = 0

\* The relay once the worker has connected to RabbitMQ.
InitProgram == InitWith("running")

Init ==
    /\ InitProgram
    /\ parsing = NoAddress
    /\ stomp = Session_new(<<0, 0>>, {})
    /\ encoding = NoValue

\* The ws event loop is free to run a handler.
HandlerFree == ~crashed /\ fed.st = "idle"

\* server.out.send(frame)
Send(c, frame) == out' = [out EXCEPT ![c] = Append(@, frame)]

(* ------------------------- AsyncServer handlers ----------------------- *)
\* on_open: the challenge is the first thing written.
OnOpen(c) ==
    /\ HandlerFree
    /\ cstate[c] = "new"
    /\ cstate' = [cstate EXCEPT ![c] = "open"]
    /\ Send(c, ChallengeFrame)
    /\ UNCHANGED <<subscriptions, nreq, nmsg, crashed, fed>>
    /\ UNCHANGED <<adapterVars, brokerVars, sinks, historyVars>>
    /\ UNCHANGED <<clientVars, libVars>>

\* A handler panics: the thread that runs ws::listen unwinds and the process ends.
Panic ==
    /\ crashed' = TRUE
    /\ UNCHANGED <<cstate, subscriptions, out, nmsg, fed>>
    /\ UNCHANGED <<adapterVars, brokerVars, sinks, delivered, gone, due>>

\* Answer `frame` and change nothing else.
Answer(c, frame) ==
    /\ Send(c, frame)
    /\ UNCHANGED <<cstate, subscriptions, nmsg, crashed, fed>>
    /\ UNCHANGED <<adapterVars, brokerVars, sinks, delivered, gone, due>>

\* Faulty variants of the limit test: never full, always full.
SubscriptionsFullNever(n) == FALSE

SubscriptionsFullAlways(n) == TRUE

\* subscribe(): the test `self.subscriptions.len() == MAX_SUBSCRIPTIONS`.
SubscriptionsFull(n) == n = MAX_SUBSCRIPTIONS

\* A fresh sink (res_tx, res_rx), the BrokerResponseHandler { inner, res_rx }
\* handed to init()'s fut_loop for it, and the Consumer the adapter will
\* build on res_tx.  The sink is unbounded, so the moment fut_loop spawns the
\* response_loop is not observable and the handler is part of the sink.
\* `since` is history: the PostSlates accepted before the Subscribe.
NewSink(c, subject) ==
    [inner |-> c, subject |-> subject, phase |-> "requested",
     signalled |-> FALSE, channel |-> "none", registered |-> FALSE,
     stream |-> << >>, q |-> << >>, evictedAt |-> 0, evictedBy |-> "none",
     since |-> nmsg]

BrokerSubscribe(id, subject, sink) ==
    [type |-> "Subscribe", id |-> id, subject |-> subject, response_sender |-> sink]
BrokerUnsubscribe(id) == [type |-> "Unsubscribe", id |-> id]
BrokerPostMessage(subject, payload, reply_to, ttl, id, req) ==
    [type |-> "PostMessage", subject |-> subject, payload |-> payload,
     reply_to |-> reply_to, message_expiration_in_seconds |-> ttl,
     id |-> id, req |-> req]

\* nats_sender.unbounded_send succeeds while the receiver of the channel is
\* alive.  The receiver is owned by the and_then closure of the worker's
\* program: it is dropped with the closure when Broker::connect fails.
ReceiverAlive == worker # "dead"

\* The error kind subscribe() answers when verify_signature fails.
SubscribeErrorKind == "UnknownError"

subscribe(c, address, signature) ==
    LET result == verify_signature(address, get_challenge_raw, signature)
        sink == Len(sinks) + 1
    IN  CASE result = "Panic" -> Panic
          [] result = "Err" -> Answer(c, ErrorFrame(SubscribeErrorKind))
          [] OTHER ->
               IF SubscriptionsFull(Cardinality(subscriptions[c]))
               THEN Answer(c, ErrorFrame("TooManySubscriptions"))
               ELSE IF ~ReceiverAlive
               THEN Answer(c, ErrorFrame("UnknownError"))
               ELSE /\ sinks' = Append(sinks, NewSink(c, address))
                    /\ nats' = Append(nats, BrokerSubscribe(c, address, sink))
                    /\ subscriptions' = [subscriptions EXCEPT ![c] = @ \cup {address}]
                    /\ Send(c, OkFrame)
                    /\ UNCHANGED <<cstate, nmsg, crashed, fed, consumers, posting, worker>>
                    /\ UNCHANGED <<brokerVars, delivered, gone, due>>

\* A connection stops being owed the messages of a subject it leaves.
Release(c) == [i \in 1..Len(due) |-> [due[i] EXCEPT !.conns = @ \ {c}]]

\* Faulty variant: answers Ok without looking at the map.
unsubscribe_unchecked(c, address) == Answer(c, OkFrame)

unsubscribe(c, address) ==
    IF address \in subscriptions[c]
    THEN /\ subscriptions' = [subscriptions EXCEPT ![c] = @ \ {address}]
         /\ IF ReceiverAlive
            THEN /\ nats' = Append(nats, BrokerUnsubscribe(c))
                 /\ Send(c, OkFrame)
            ELSE /\ nats' = nats
                 /\ Send(c, ErrorFrame("UnknownError"))
         /\ due' = Release(c)
         /\ UNCHANGED <<cstate, nmsg, crashed, fed, consumers, posting, worker>>
         /\ UNCHANGED <<brokerVars, sinks, delivered, gone>>
    ELSE Answer(c, ErrorFrame("InvalidRequest"))

(* ------------------------------ post_slate ---------------------------- *)
\* The two verification attempts of post_slate: over `str`, then over
\* `str` with the relay's challenge pushed onto it.
PostVerify(public_key, str, signature) ==
    IF verify_signature(public_key, str, signature) # "Err"
    THEN verify_signature(public_key, str, signature)
    ELSE verify_signature(public_key, str \o get_challenge_raw, signature)

\* Faulty variant: the challenge is recorded whichever attempt succeeded.
PostChallengeAlways(public_key, str, signature) == get_challenge_raw

\* challenge_raw: "" unless the first attempt failed.
PostChallenge(public_key, str, signature) ==
    IF verify_signature(public_key, str, signature) = "Err"
    THEN get_challenge_raw
    ELSE NoText

\* Faulty variant of the routing test: `||` for `&&`.
IsLocalEither(to_address) ==
    to_address.port = grinbox_port \/ to_address.domain = grinbox_domain

\* The routing test of post_slate.
IsLocal(to_address) ==
    to_address.port = grinbox_port /\ to_address.domain = grinbox_domain

grinbox_protocol_unsecure == FALSE

FedUrl(to_address) ==
    [scheme |-> IF grinbox_protocol_unsecure THEN "ws" ELSE "wss",
     domain |-> to_address.domain, port |-> to_address.port]

\* post_slate_federated up to the call of ws::connect, which blocks.
post_slate_federated(c, from_address, to_address, str, signature, ttl) ==
    /\ fed' = [st |-> "connecting", conn |-> c, url |-> FedUrl(to_address),
               from_address |-> from_address, to_address |-> to_address,
               str |-> str, signature |-> signature,
               message_expiration_in_seconds |-> ttl,
               sent |-> << >>, got |-> 0, frames |-> << >>, peer |-> "none"]
    /\ nmsg' = nmsg + 1
    /\ UNCHANGED <<cstate, subscriptions, out, crashed>>
    /\ UNCHANGED <<adapterVars, brokerVars, sinks, delivered, gone, due>>

\* The connections whose subscription map holds `subject`.
Subscribers(subject) == {d \in Conns : subject \in subscriptions[d]}

post_slate(c, from, to, str, signature, ttl) ==
    LET fa == from_str_raw(from)
        ta == from_str_raw(to)
    IN  CASE fa.res = "Panic" -> Panic
          [] fa.res = "Err" -> Answer(c, ErrorFrame("InvalidRequest"))
          [] ta.res = "Panic" -> Panic
          [] ta.res = "Err" -> Answer(c, ErrorFrame("InvalidRequest"))
          [] OTHER ->
               LET result == PostVerify(fa.public_key, str, signature)
                   challenge_raw == PostChallenge(fa.public_key, str, signature)
               IN  CASE result = "Panic" -> Panic
                     [] result = "Err" -> Answer(c, ErrorFrame("InvalidSignature"))
                     [] OTHER ->
                          /\ nmsg < MaxMsg
                          /\ IF IsLocal(ta) /\ ~ReceiverAlive
                             THEN Answer(c, ErrorFrame("UnknownError"))
                             ELSE IF IsLocal(ta)
                             THEN /\ nats' = Append(nats,
                                        BrokerPostMessage(ta.public_key,
                                            EncodePayload(str, challenge_raw, signature),
                                            stripped(fa), ttl, nmsg + 1,
                                            PostSlateReq(from, to, str, signature, ttl)))
                                  /\ nmsg' = nmsg + 1
                                  /\ due' = Append(due, [subject |-> ta.public_key,
                                                    conns |-> Subscribers(ta.public_key),
                                                    offline |-> Subscribers(ta.public_key) = {}])
                                  /\ Send(c, OkFrame)
                                  /\ UNCHANGED <<cstate, subscriptions, crashed, fed>>
                                  /\ UNCHANGED <<consumers, posting, worker, delivered, gone>>
                                  /\ UNCHANGED <<brokerVars, sinks>>
                             ELSE post_slate_federated(c, fa, ta, str, signature, ttl)

\* Faulty variant: a frame that does not parse ends the connection.
InvalidRequestClosing(c) ==
    /\ cstate' = [cstate EXCEPT ![c] = "closed"]
    /\ UNCHANGED <<out, subscriptions, nmsg, crashed, fed>>
    /\ UNCHANGED <<adapterVars, brokerVars, sinks, delivered, gone, due>>

\* on_message, serde_json::from_str failed: the response is
\* AsyncServer::error(GrinboxError::InvalidRequest).
InvalidRequest(c) == Answer(c, ErrorFrame("InvalidRequest"))

\* on_message: parse, dispatch, write the response.
OnMessage(c, req, budget) ==
    /\ HandlerFree
    /\ cstate[c] = "open"
    /\ nreq < budget
    /\ nreq' = nreq + 1
    /\ last' = [n |-> nreq + 1, conn |-> c, req |-> req, subs |-> subscriptions[c]]
    /\ CASE req.type = "Challenge" -> Answer(c, ChallengeFrame)
         [] req.type = "Subscribe" -> subscribe(c, req.address, req.signature)
         [] req.type = "Unsubscribe" -> unsubscribe(c, req.address)
         [] req.type = "PostSlate" ->
              post_slate(c, req.from, req.to, req.str, req.signature,
                         req.message_expiration_in_seconds)
         [] OTHER -> InvalidRequest(c)
    /\ UNCHANGED <<clientVars, libVars>>

\* The connection ends: on_close logs, then the AsyncServer is dropped and
\* sends one Unsubscribe { id } per entry of its subscription map.
DropRequests(c) ==
    IF subscriptions[c] = {} THEN << >> ELSE <<BrokerUnsubscribe(c)>>

Close(c) ==
    /\ HandlerFree
    /\ cstate[c] = "open"
    /\ cstate' = [cstate EXCEPT ![c] = "closed"]
    /\ nats' = IF ReceiverAlive THEN nats \o DropRequests(c) ELSE nats
    /\ subscriptions' = [subscriptions EXCEPT ![c] = {}]
    /\ due' = Release(c)
    /\ UNCHANGED <<out, nreq, nmsg, crashed, fed, consumers, posting, worker>>
    /\ UNCHANGED <<brokerVars, sinks, delivered, gone, last>>
    /\ UNCHANGED <<clientVars, libVars>>

(* ----------------------------- federation ----------------------------- *)
\* Faulty variant: a peer relay with a challenge of its own.
peer_challenge_fresh == <<"nonce-of-the-peer">>

\* The challenge of a peer relay: it runs the same get_challenge_raw.
peer_challenge_raw == get_challenge_raw

\* What post_slate of a relay whose challenge is `challenge` decides on a
\* PostSlate frame before routing it.
PostOutcome(challenge, req) ==
    LET fa == from_str_raw(req.from)
        ta == from_str_raw(req.to)
    IN  CASE fa.res = "Panic" -> "Panic"
          [] fa.res = "Err" -> "InvalidRequest"
          [] ta.res = "Panic" -> "Panic"
          [] ta.res = "Err" -> "InvalidRequest"
          [] OTHER ->
               LET first == verify_signature(fa.public_key, req.str, req.signature)
                   result == IF first # "Err" THEN first
                             ELSE verify_signature(fa.public_key, req.str \o challenge,
                                                   req.signature)
               IN  CASE result = "Panic" -> "Panic"
                     [] result = "Err" -> "InvalidSignature"
                     [] OTHER -> "Accepted"

PeerGarbage == [type |-> "Unparsable"]

PeerFrames ==
    {ChallengeFrame, OkFrame, ErrorFrame("InvalidSignature"), PeerGarbage,
     SlateFrame(AddrText(FALSE, "pkB", NoDomain, NoPort), Body1, NoText,
                Sign(Body1, "pkB"))}

\* What post_slate_federated answers for the Result of ws::connect.
FederatedResponse(result) ==
    IF result = "Ok" THEN OkFrame ELSE ErrorFrame("UnknownError")

\* ws::connect fails before any connection exists (bad url, unresolvable host).
FedConnectFail ==
    /\ ~crashed
    /\ fed.st = "connecting"
    /\ fed' = FedIdle
    /\ Send(fed.conn, FederatedResponse("Err"))
    /\ UNCHANGED <<cstate, subscriptions, nreq, nmsg, crashed>>
    /\ UNCHANGED <<adapterVars, brokerVars, sinks, historyVars>>
    /\ UNCHANGED <<clientVars, libVars>>

FedOpen ==
    /\ ~crashed
    /\ fed.st = "connecting"
    /\ fed' = [fed EXCEPT !.st = "open"]
    /\ UNCHANGED <<cstate, subscriptions, out, nreq, nmsg, crashed>>
    /\ UNCHANGED <<adapterVars, brokerVars, sinks, historyVars>>
    /\ UNCHANGED <<clientVars, libVars>>

\* Faulty variant: the sender address goes out as displayed, scheme included.
FederatedRequestUnstripped(e) ==
    PostSlateReq(Display(e.from_address), stripped(e.to_address), e.str,
                 e.signature, e.message_expiration_in_seconds)

\* The GrinboxRequest::PostSlate the closure builds on the peer's Challenge.
FederatedRequest(e) ==
    PostSlateReq(stripped(e.from_address), stripped(e.to_address), e.str,
                 e.signature, e.message_expiration_in_seconds)

\* The closure given to ws::connect, run for one frame of the peer.  The
\* types of the frames received are kept as history in `frames`.
FedPeerFrame(f) ==
    /\ ~crashed
    /\ fed.st = "open"
    /\ fed.got < MaxPeerFrames
    /\ LET seen == [fed EXCEPT !.got = @ + 1, !.frames = Append(@, f.type)] IN
       CASE f.type = "Unparsable" -> crashed' = TRUE /\ fed' = fed
         [] f.type = "Challenge" ->
              /\ fed' = [seen EXCEPT !.sent = Append(@, FederatedRequest(fed))]
              /\ crashed' = crashed
         [] f.type = "Error" ->
              /\ fed' = [seen EXCEPT !.st = "closing", !.peer = "Error"]
              /\ crashed' = crashed
         [] f.type = "Ok" ->
              /\ fed' = [seen EXCEPT !.st = "closing", !.peer = "Ok"]
              /\ crashed' = crashed
         [] OTHER -> fed' = seen /\ crashed' = crashed
    /\ UNCHANGED <<cstate, subscriptions, out, nreq, nmsg>>
    /\ UNCHANGED <<adapterVars, brokerVars, sinks, historyVars>>
    /\ UNCHANGED <<clientVars, libVars>>

\* The socket fails during the exchange: ws hands the error to the handler's
\* on_error (not overridden by the closure) and the event loop winds down.
FedSocketError ==
    /\ ~crashed
    /\ fed.st = "open"
    /\ fed' = [fed EXCEPT !.st = "closing", !.peer = "SocketError"]
    /\ UNCHANGED <<cstate, subscriptions, out, nreq, nmsg, crashed>>
    /\ UNCHANGED <<adapterVars, brokerVars, sinks, historyVars>>
    /\ UNCHANGED <<clientVars, libVars>>

\* The connection is gone, ws::connect returns Ok(()): the closure returned
\* Ok(()) for every frame, so nothing the peer said reaches `result`.
FedReturn ==
    /\ ~crashed
    /\ fed.st = "closing"
    /\ fed' = FedIdle
    /\ Send(fed.conn, FederatedResponse("Ok"))
    /\ UNCHANGED <<cstate, subscriptions, nreq, nmsg, crashed>>
    /\ UNCHANGED <<adapterVars, brokerVars, sinks, historyVars>>
    /\ UNCHANGED <<clientVars, libVars>>

(* --------------------------- broker adapter --------------------------- *)
\* Drop for Consumer: close the channel if start() has stored one, then
\* signal the completer.  `by` and the message count are kept as history.
Drop(consumer, by) ==
    [consumer EXCEPT
        !.channel = IF @ = "open" THEN "closing" ELSE @,
        !.signalled = TRUE,
        !.evictedAt = nmsg + 1,
        !.evictedBy = by]

\* HashMap::insert / HashMap::remove hand back the previous value, which is
\* dropped at the end of the statement.
DropAt(table, key, by) ==
    [s \in 1..Len(sinks) |->
        IF key \in DOMAIN table /\ table[key] = s THEN Drop(sinks[s], by) ELSE sinks[s]]

\* Faulty variant: the adapter is handed the subject the connection asked
\* for last instead of the connection id.
UnsubscribeKeyBySubject(request) ==
    LET own == {s \in 1..Len(sinks) : sinks[s].inner = request.id}
    IN  IF own = {} THEN request.id
        ELSE sinks[CHOOSE s \in own : \A t \in own : t <= s].subject

\* The key the Unsubscribe branch removes from `consumers`: the one string
\* the request carries, which the session filled with its connection id.
UnsubscribeKey(request) == request.id

\* One turn of the request loop of Broker::start.  The loop matches
\* Unsubscribe { subject } and removes that key from `consumers`; the key it
\* is given is the `id` the session put into BrokerRequest::Unsubscribe.
BrokerStep ==
    /\ ~crashed
    /\ worker = "running"
    /\ nats # << >>
    /\ nats' = Tail(nats)
    /\ LET request == Head(nats) IN
       CASE request.type = "Subscribe" ->
              LET s == request.response_sender
                  dropped == DropAt(consumers, request.subject, request.id)
              IN  /\ sinks' = [dropped EXCEPT ![s].phase = "starting"]
                  /\ consumers' = [consumers EXCEPT ![request.subject] = s]
                  /\ posting' = posting
         [] request.type = "Unsubscribe" ->
              /\ sinks' = DropAt(consumers, UnsubscribeKey(request), request.id)
              /\ consumers' = [k \in DOMAIN consumers |->
                                  IF k = UnsubscribeKey(request) THEN 0 ELSE consumers[k]]
              /\ posting' = posting
         [] OTHER ->
              /\ posting' = posting \cup
                    {[id |-> request.id, subject |-> request.subject,
                      payload |-> request.payload, reply_to |-> request.reply_to,
                      req |-> request.req]}
              /\ UNCHANGED <<sinks, consumers>>
    /\ UNCHANGED <<sessionVars, brokerVars, historyVars, worker>>
    /\ UNCHANGED <<clientVars, libVars>>

\* The future of Consumer::start runs to the point where the channel is
\* stored and the CompletionPact is polled: the queue is declared and
\* basic_consume (no_ack) has registered the consumer at RabbitMQ.
ConsumerStart(s) ==
    /\ ~crashed
    /\ sinks[s].phase = "starting"
    /\ sinks' = [sinks EXCEPT ![s].phase = "consuming", ![s].channel = "open",
                              ![s].registered = TRUE]
    /\ UNCHANGED <<sessionVars, adapterVars, brokerVars, historyVars>>
    /\ UNCHANGED <<clientVars, libVars>>

\* The channel.close(0, "") spawned by Drop for Consumer reaches RabbitMQ.
ChannelClose(s) ==
    /\ ~crashed
    /\ sinks[s].channel = "closing"
    /\ sinks' = [sinks EXCEPT ![s].channel = "closed", ![s].registered = FALSE]
    /\ UNCHANGED <<sessionVars, adapterVars, brokerVars, historyVars>>
    /\ UNCHANGED <<clientVars, libVars>>

\* handle_post_message: declare the queue and basic_publish into it.
Publish(m) ==
    /\ ~crashed
    /\ m \in posting
    /\ posting' = posting \ {m}
    /\ queue' = [queue EXCEPT ![m.subject] = Append(@, m)]
    /\ UNCHANGED <<sessionVars, nats, consumers, worker, sinks, historyVars>>
    /\ UNCHANGED <<clientVars, libVars>>

\* RabbitMQ hands the head of a queue to one of the consumers registered on
\* it; with no_ack the message leaves the queue at once.
RabbitDeliver(s) ==
    /\ ~crashed
    /\ sinks[s].registered
    /\ queue[sinks[s].subject] # << >>
    /\ queue' = [queue EXCEPT ![sinks[s].subject] = Tail(@)]
    /\ IF sinks[s].phase = "done"
       THEN /\ gone' = gone \cup {Head(queue[sinks[s].subject]).id}
            /\ sinks' = sinks
       ELSE /\ sinks' = [sinks EXCEPT ![s].stream = Append(@, Head(queue[sinks[s].subject]))]
            /\ gone' = gone
    /\ UNCHANGED <<sessionVars, adapterVars, delivered, due, last>>
    /\ UNCHANGED <<clientVars, libVars>>

\* CompletionPact::poll: a completion signal ends the stream, otherwise the
\* next message of the consumer stream is forwarded to the sink.
PactEnds(consumer) == consumer.signalled

PactPoll(s) ==
    /\ ~crashed
    /\ sinks[s].phase = "consuming"
    /\ IF PactEnds(sinks[s])
       THEN /\ sinks' = [sinks EXCEPT ![s].phase = "done", ![s].stream = << >>]
            /\ gone' = gone \cup {sinks[s].stream[i].id : i \in 1..Len(sinks[s].stream)}
       ELSE /\ sinks[s].stream # << >>
            /\ sinks' = [sinks EXCEPT ![s].stream = Tail(@),
                                      ![s].q = Append(@, Head(sinks[s].stream))]
            /\ gone' = gone
    /\ UNCHANGED <<sessionVars, adapterVars, brokerVars, delivered, due, last>>
    /\ UNCHANGED <<clientVars, libVars>>

(* ------------------------------- router ------------------------------- *)
\* The Slate frame response_loop builds from a BrokerResponse::Message.
SlateOf(m) ==
    LET p == DecodePayload(m.payload)
    IN  SlateFrame(m.reply_to, p.str, p.challenge, p.signature)

\* response_loop: take one message from the sink and write it to the
\* owner's socket; the write fails when the connection is closed.
ResponseLoop(s) ==
    /\ ~crashed
    /\ sinks[s].q # << >>
    /\ sinks' = [sinks EXCEPT ![s].q = Tail(@)]
    /\ LET m == Head(sinks[s].q)
           c == sinks[s].inner
       IN  IF DecodePayload(m.payload).ok /\ cstate[c] = "open"
           THEN /\ Send(c, SlateOf(m))
                /\ delivered' = delivered \cup
                      {[id |-> m.id, sink |-> s, conn |-> c, frame |-> SlateOf(m),
                        req |-> m.req,
                        n |-> Cardinality({d \in delivered : d.id = m.id}) + 1]}
                /\ gone' = gone
           ELSE /\ gone' = gone \cup {m.id}
                /\ UNCHANGED <<out, delivered>>
    /\ UNCHANGED <<cstate, subscriptions, nreq, nmsg, crashed, fed, due, last>>
    /\ UNCHANGED <<adapterVars, brokerVars>>
    /\ UNCHANGED <<clientVars, libVars>>

(* --------------------------- specification ---------------------------- *)
\* The relay with two connections: c1 sends any request, c2 is a second
\* client that subscribes to the address c1 may hold.
Next ==
    \/ \E c \in Conns : OnOpen(c)
    \/ \E req \in Requests : OnMessage("c1", req, MaxReq)
    \/ \E req \in RivalRequests : OnMessage("c2", req, MaxReq)
    \/ \E c \in Conns : Close(c)
    \/ FedConnectFail
    \/ FedOpen
    \/ \E f \in PeerFrames : FedPeerFrame(f)
    \/ FedSocketError
    \/ FedReturn
    \/ BrokerStep
    \/ \E s \in 1..Len(sinks) : ConsumerStart(s)
    \/ \E s \in 1..Len(sinks) : ChannelClose(s)
    \/ \E m \in posting : Publish(m)
    \/ \E s \in 1..Len(sinks) : RabbitDeliver(s)
    \/ \E s \in 1..Len(sinks) : PactPoll(s)
    \/ \E s \in 1..Len(sinks) : ResponseLoop(s)

Spec == Init /\ [][Next]_vars

\* The relay under well-formed local traffic of several connections: every
\* request parses and is validly signed, every recipient is local, so that
\* no handler panics and no federation exchange starts.
NextDelivery ==
    \/ \E c \in Conns : OnOpen(c)
    \/ \E c \in Conns, req \in DeliveryRequests :
          OnMessage(c, req, MaxDeliveryReq)
    \/ \E c \in Conns : Close(c)
    \/ BrokerStep
    \/ \E s \in 1..Len(sinks) : ConsumerStart(s)
    \/ \E s \in 1..Len(sinks) : ChannelClose(s)
    \/ \E m \in posting : Publish(m)
    \/ \E s \in 1..Len(sinks) : RabbitDeliver(s)
    \/ \E s \in 1..Len(sinks) : PactPoll(s)
    \/ \E s \in 1..Len(sinks) : ResponseLoop(s)

SpecDelivery == Init /\ [][NextDelivery]_vars

\* One connection under the same well-formed local traffic, with room for
\* Subscribe, Unsubscribe, Subscribe again and a PostSlate.
NextResubscribe ==
    \/ OnOpen("c1")
    \/ \E req \in DeliveryRequests : OnMessage("c1", req, MaxResubscribeReq)
    \/ BrokerStep
    \/ \E s \in 1..Len(sinks) : ConsumerStart(s)
    \/ \E s \in 1..Len(sinks) : ChannelClose(s)
    \/ \E m \in posting : Publish(m)
    \/ \E s \in 1..Len(sinks) : RabbitDeliver(s)
    \/ \E s \in 1..Len(sinks) : PactPoll(s)
    \/ \E s \in 1..Len(sinks) : ResponseLoop(s)

SpecResubscribe == Init /\ [][NextResubscribe]_vars

\* The worker's Broker::connect resolves: the and_then closure runs and
\* spawns the request loop over the receiver.
BrokerConnected ==
    /\ ~crashed
    /\ worker = "connecting"
    /\ worker' = "running"
    /\ UNCHANGED <<sessionVars, nats, consumers, posting, brokerVars, sinks, historyVars>>
    /\ UNCHANGED <<clientVars, libVars>>

\* The worker's Broker::connect fails: map_err logs the error, the and_then
\* closure is dropped with the receiver and the requests buffered in it, and
\* tokio::run returns.
BrokerConnectFails ==
    /\ ~crashed
    /\ worker = "connecting"
    /\ worker' = "dead"
    /\ nats' = << >>
    /\ UNCHANGED <<sessionVars, consumers, posting, brokerVars, sinks, historyVars>>
    /\ UNCHANGED <<clientVars, libVars>>

\* The relay from the moment main() starts listening, the worker still
\* connecting to RabbitMQ.
InitStartup ==
    /\ InitWith("connecting")
    /\ parsing = NoAddress
    /\ stomp = Session_new(<<0, 0>>, {})
    /\ encoding = NoValue

\* One connection under well-formed local traffic while the worker connects.
NextStartup ==
    \/ OnOpen("c1")
    \/ \E req \in DeliveryRequests : OnMessage("c1", req, MaxDeliveryReq)
    \/ Close("c1")
    \/ BrokerConnected
    \/ BrokerConnectFails
    \/ BrokerStep
    \/ \E s \in 1..Len(sinks) : ConsumerStart(s)
    \/ \E s \in 1..Len(sinks) : ChannelClose(s)
    \/ \E m \in posting : Publish(m)
    \/ \E s \in 1..Len(sinks) : RabbitDeliver(s)
    \/ \E s \in 1..Len(sinks) : PactPoll(s)
    \/ \E s \in 1..Len(sinks) : ResponseLoop(s)

SpecStartup == InitStartup /\ [][NextStartup]_vars

(* ========================= subscriber client ========================== *)
\* GrinboxBroker::start: build the url and spawn the reconnect loop thread
\* with a fresh ConnectionMetadata.
Start(r) ==
    /\ client[r].pc = "idle"
    /\ r = "r1" \/ client["r1"].pc # "idle"
    /\ client' = [client EXCEPT ![r].pc = "loop"]
    /\ UNCHANGED <<inner, nstop>>
    /\ UNCHANGED <<vars, libVars>>

\* connect(url, factory): the factory runs and stores the Sender of the new
\* connection in `inner`; the handshake is under way.
ConnectWithin(r, budget) ==
    /\ client[r].pc = "loop"
    /\ client[r].attempts < budget
    /\ inner' = [run |-> r, n |-> client[r].attempts + 1]
    /\ client' = [client EXCEPT ![r].pc = "connecting", ![r].attempts = @ + 1]
    /\ UNCHANGED nstop
    /\ UNCHANGED <<vars, libVars>>

Connect(r) == ConnectWithin(r, MaxAttempts)

\* connect(url, factory) fails before the factory is called (the socket
\* poll cannot be built, the url does not parse).
ConnectEarlyErr(r) ==
    /\ client[r].pc = "loop"
    /\ client[r].attempts < MaxAttempts
    /\ client' = [client EXCEPT ![r].pc = "returned", ![r].attempts = @ + 1,
                                ![r].result = "Err"]
    /\ UNCHANGED <<inner, nstop>>
    /\ UNCHANGED <<vars, libVars>>

\* Faulty variant: every successful open is reported as the first.
OpenEventAlwaysFirst(meta) == "on_open"

\* on_open: which handler event the open delivers.
OpenEvent(meta) ==
    IF meta.connected_at_least_once THEN "on_reestablished" ELSE "on_open"

\* GrinboxWebsocketClient::on_open: the handshake succeeded.
on_open(r) ==
    /\ client[r].pc = "connecting"
    /\ client' = [client EXCEPT
                     ![r].pc = "connected",
                     ![r].log = @ \o <<"open", OpenEvent(client[r].meta)>>,
                     ![r].meta = [retries |-> 0, connected_at_least_once |-> TRUE]]
    /\ UNCHANGED <<inner, nstop>>
    /\ UNCHANGED <<vars, libVars>>

(* ---------------------- subscriber: on_message ------------------------ *)
\* The subscriber's own key pair, as the text of its public key.
OwnKey == "pkA"

\* GrinboxAddress::from_str: as from_str_raw, with the version bytes of the
\* network, which every key of the model carries.
from_str(t) == from_str_raw(t)

\* Encrypted slate texts: one addressed to the subscriber that decrypts to
\* a slate, one that is no GrinboxMessage, one addressed to another key,
\* one that does not decrypt, and one that decrypts to something else.
GoodBody == <<"message-for-pkA">>
JunkBody == <<"no-message">>
TheirBody == <<"message-for-pkB">>
SealedBody == <<"sealed-for-pkA">>
EmptyBody == <<"no-slate-for-pkA">>

\* The recipient an encrypted slate text declares.
Destination(str) == IF str = TheirBody THEN "pkB" ELSE "pkA"

\* TxProof::from_response: the steps in order, each with its error kind;
\* the address and the signature are parsed with the parsers of the crate.
from_response(from, str, challenge, signature, expected_destination) ==
    LET address == from_str(from)
    IN  CASE address.res = "Panic" -> "Panic"
          [] address.res = "Err" -> "ParseAddress"
          [] from_base58_check_raw(address.public_key) = "Err" -> "ParsePublicKey"
          [] Signature_from_hex(signature) = "Panic" -> "Panic"
          [] Signature_from_hex(signature) = "Err" -> "ParseSignature"
          [] ~verify_signature_raw(str \o challenge, signature, address.public_key)
               -> "VerifySignature"
          [] str = JunkBody -> "ParseGrinboxMessage"
          [] Destination(str) # expected_destination -> "VerifyDestination"
          [] str = SealedBody -> "DecryptMessage"
          [] str = EmptyBody -> "ParseSlate"
          [] OTHER -> "Ok"

\* A second challenge text, of a relay that would issue its own.
OtherChallenge == <<"another-challenge">>

\* What a relay can send to the subscriber.
SlateSigned(from, str, challenge) ==
    SlateFrame(from, str, challenge, Sign(str \o challenge, "pkB"))

ClientFrames ==
    {[type |-> "Challenge", str |-> c] : c \in {get_challenge_raw, OtherChallenge}}
    \cup {OkFrame, ErrorFrame("InvalidRequest"), PeerGarbage}
    \cup {SlateSigned(SenderText, b, get_challenge_raw) :
             b \in {GoodBody, JunkBody, TheirBody, SealedBody, EmptyBody}}
    \cup {SlateFrame(f, GoodBody, get_challenge_raw,
                     Sign(GoodBody \o get_challenge_raw, "pkB")) :
             f \in {Garbage, AddrText(FALSE, "pkB", "h.example", EmptyPort)}}
    \cup {SlateFrame(SenderText, GoodBody, get_challenge_raw, g) :
             g \in {NotHex, EmptySig, Sign(GoodBody, "pkB")}}

\* Faulty variant: the signature is made once, over the first challenge.
SubscribeStale(str) == SubscribeReq(OwnKey, Sign(get_challenge_raw, OwnKey))

\* GrinboxWebsocketClient::subscribe: the request it sends for a challenge.
SubscribeFor(str) == SubscribeReq(OwnKey, Sign(str, OwnKey))

\* GrinboxWebsocketClient::on_message
on_message(r, f, budget) ==
    /\ client[r].pc = "connected"
    /\ Len(client[r].rcvd) < budget
    /\ LET n == client[r].attempts
           got == [client EXCEPT ![r].rcvd = Append(@, [n |-> n, frame |-> f])]
       IN  CASE f.type = "Challenge" ->
                  client' = [got EXCEPT
                               ![r].sent = Append(@, [n |-> n, req |-> SubscribeFor(f.str)])]
             [] f.type = "Slate" ->
                  LET res == from_response(f.from, f.str, f.challenge, f.signature, OwnKey)
                  IN  CASE res = "Panic" -> client' = [got EXCEPT ![r].pc = "panicked"]
                        [] res = "Ok" -> client' = [got EXCEPT ![r].log = Append(@, "on_slate")]
                        [] OTHER -> client' = got
             [] OTHER -> client' = got
    /\ UNCHANGED <<inner, nstop>>
    /\ UNCHANGED <<vars, libVars>>

\* connect() returns: the connection was refused, lost or closed and the
\* event loop of the attempt ended, with or without an error.
ConnectReturns(r, result) ==
    /\ client[r].pc \in {"connecting", "connected"}
    /\ client' = [client EXCEPT ![r].pc = "returned", ![r].result = result]
    /\ UNCHANGED <<inner, nstop>>
    /\ UNCHANGED <<vars, libVars>>

\* Faulty variant: every failed iteration of a once connected run reports
\* a drop.
DroppedWheneverConnected(meta) == meta.connected_at_least_once

\* The reconnect loop's test before handler.on_dropped().
Dropped(meta) == meta.retries = 0 /\ meta.connected_at_least_once

\* Faulty variant: the close is always reported as normal.
CloseEventNormal(result) == "on_close(Normal)"

\* CloseReason of on_close, from the result of the last connect().
CloseEvent(result) ==
    IF result = "Err" THEN "on_close(Abnormal)" ELSE "on_close(Normal)"

\* 2u64.pow(exp): a power of two is one set bit, held here as the place of
\* that bit.  From exp = 64 on the bit leaves the 64-bit word: a build with
\* overflow checks panics, a build without them wraps to 0.
Pow2(exp) ==
    IF exp < U64_BITS
    THEN {[kind |-> "value", bit |-> exp]}
    ELSE {[kind |-> "wrapped", bit |-> -1], [kind |-> "panic", bit |-> -1]}

\* std::cmp::min(32, 2u64.pow(guard.retries))
Secs(p) ==
    IF p.kind = "wrapped" THEN 0
    ELSE IF p.bit < 31 /\ 2^p.bit < BACKOFF_CAP_SECS THEN 2^p.bit
    ELSE BACKOFF_CAP_SECS

\* The loop after connect() returned: stopped (inner is None) means
\* on_close and break; otherwise on_dropped if due, and the thread goes to
\* sleep holding the metadata lock.
LoopTail(r) ==
    /\ client[r].pc = "returned"
    /\ IF inner = NoSender
       THEN client' = [client EXCEPT
                         ![r].pc = "exiting",
                         ![r].log = @ \o <<"stop", CloseEvent(client[r].result)>>]
       ELSE \E p \in Pow2(client[r].meta.retries) :
               client' = [client EXCEPT
                            ![r].pc = IF p.kind = "panic" THEN "panicked" ELSE "sleeping",
                            ![r].slept = IF p.kind = "panic" THEN @ ELSE Secs(p),
                            ![r].holds = IF p.kind = "panic" THEN {}
                                         ELSE {"connection_meta_data"},
                            ![r].log = @ \o <<"fail">> \o
                                (IF Dropped(client[r].meta) THEN <<"on_dropped">> ELSE << >>)]
    /\ UNCHANGED <<inner, nstop>>
    /\ UNCHANGED <<vars, libVars>>

\* The sleep ends: retries += 1, the guard goes out of scope at the end of
\* the else block and the loop starts over.
Wake(r) ==
    /\ client[r].pc = "sleeping"
    /\ client' = [client EXCEPT ![r].pc = "loop", ![r].meta.retries = @ + 1,
                                ![r].holds = {}]
    /\ UNCHANGED <<inner, nstop>>
    /\ UNCHANGED <<vars, libVars>>

\* After the loop: `*guard = None`, and the thread ends.
Exit(r) ==
    /\ client[r].pc = "exiting"
    /\ inner' = NoSender
    /\ client' = [client EXCEPT ![r].pc = "exited"]
    /\ UNCHANGED nstop
    /\ UNCHANGED <<vars, libVars>>

\* GrinboxBroker::stop, called by unsubscribe(): close the stored Sender,
\* if any, and set inner to None.
stop ==
    /\ client["r1"].pc # "idle"
    /\ nstop < MaxStops
    /\ nstop' = nstop + 1
    /\ inner' = NoSender
    /\ UNCHANGED client
    /\ UNCHANGED <<vars, libVars>>

\* GrinboxBroker::is_running: whether `inner` holds a Sender.
is_running == inner # NoSender

NextClient ==
    \/ \E r \in Runs : Start(r)
    \/ \E r \in Runs : Connect(r)
    \/ \E r \in Runs : ConnectEarlyErr(r)
    \/ \E r \in Runs : on_open(r)
    \/ \E r \in Runs, result \in {"Ok", "Err"} : ConnectReturns(r, result)
    \/ \E r \in Runs : LoopTail(r)
    \/ \E r \in Runs : Wake(r)
    \/ \E r \in Runs : Exit(r)
    \/ stop

SpecClient == Init /\ [][NextClient]_clientVars

\* One subscribe() run against a relay that can be reached at the first
\* attempt at most and is unreachable from then on.
NextBackoff ==
    \/ Start("r1")
    \/ ConnectWithin("r1", MaxBackoffAttempts)
    \/ client["r1"].attempts = 1 /\ on_open("r1")
    \/ \E result \in {"Ok", "Err"} : ConnectReturns("r1", result)
    \/ LoopTail("r1")
    \/ Wake("r1")

SpecBackoff == Init /\ [][NextBackoff]_clientVars

\* One subscribe() run and what the relay sends on its connections.
NextSession ==
    \/ Start("r1")
    \/ Connect("r1")
    \/ on_open("r1")
    \/ \E f \in ClientFrames : on_message("r1", f, MaxClientFrames)
    \/ \E result \in {"Ok", "Err"} : ConnectReturns("r1", result)
    \/ LoopTail("r1")
    \/ Wake("r1")

SpecSession == Init /\ [][NextSession]_clientVars

(* ========================== parsing texts ============================= *)
\* The digits a port text is made of: enough for 443, for leading zeros
\* and for numbers above 65535.
PortDigits == {0, 3, 4, 7}

DigitTexts == UNION {[1..n -> PortDigits] : n \in 0..MaxPortDigits}

\* The texts handed to from_str_raw: with and without `grinbox://`, a key
\* that decodes and one that does not, no domain, the default domain or
\* another one, no port or any digit text, and a text the regex rejects.
AddressTexts ==
    {WireText(sch, pk, NoDomain, FALSE, << >>) :
        sch \in BOOLEAN, pk \in {"pkA", BadKey}}
    \cup {WireText(sch, pk, d, FALSE, << >>) :
            sch \in BOOLEAN, pk \in {"pkA", BadKey},
            d \in {DEFAULT_GRINBOX_DOMAIN, "h.example"}}
    \cup {WireText(sch, "pkA", d, TRUE, ds) :
            sch \in BOOLEAN, d \in {DEFAULT_GRINBOX_DOMAIN, "h.example"},
            ds \in DigitTexts}
    \cup {WireGarbage}

InitAddress ==
    /\ InitProgram
    /\ stomp = Session_new(<<0, 0>>, {})
    /\ encoding = NoValue
    /\ parsing \in {[NoAddress EXCEPT !.step = "text", !.text = w] : w \in AddressTexts}

\* GrinboxAddress::from_str_raw(s)
ParseAddress ==
    /\ parsing.step = "text"
    /\ LET a == from_str_raw(captures(parsing.text))
       IN  parsing' = [parsing EXCEPT
                          !.step = IF a.res = "Panic" THEN "panicked" ELSE "parsed",
                          !.parsed = a]
    /\ UNCHANGED <<vars, clientVars, stomp, encoding>>

\* format!("{}", address)
FormatAddress ==
    /\ parsing.step \in {"parsed", "stripped"}
    /\ parsing.parsed.res = "Ok"
    /\ parsing' = [parsing EXCEPT !.step = IF @ = "parsed" THEN "shown" ELSE "both",
                                  !.shown = Written(Display(parsing.parsed))]
    /\ UNCHANGED <<vars, clientVars, stomp, encoding>>

\* address.stripped()
StripAddress ==
    /\ parsing.step \in {"parsed", "shown"}
    /\ parsing.parsed.res = "Ok"
    /\ parsing' = [parsing EXCEPT !.step = IF @ = "parsed" THEN "stripped" ELSE "both",
                                  !.stripped = Written(stripped(parsing.parsed))]
    /\ UNCHANGED <<vars, clientVars, stomp, encoding>>

NextAddress ==
    \/ ParseAddress
    \/ FormatAddress
    \/ StripAddress

SpecAddress == InitAddress /\ [][NextAddress]_libVars

(* ===================== broker session (STOMP), run ==================== *)
\* What is ready to be read in one poll: nothing, one transmission, or a
\* MESSAGE behind the receipt of a disconnect or behind a CONNECTED frame.
ItemSeqs ==
    {<< >>}
    \cup {<<t>> : t \in ServerTransmissions}
    \cup {<<CompleteFrame(f), CompleteFrame(Frame("MESSAGE", SubId, "none", <<0, 0>>))>> :
            f \in {Frame("RECEIPT", "none", DisconnectReceipt, <<0, 0>>),
                   Frame("CONNECTED", "none", "none", <<1000, 1000>>)}}

\* The tx timer is looked at only when the rx timer is not ready.
Feeds ==
    {feed \in [connect : {"Ready", "NotReady", "Err"},
               items : ItemSeqs,
               end : {"NotReady", "Closed", "Err"},
               send : {"Ok", "Err"},
               rx : {"NotReady", "Ready", "Err"},
               tx : {"NotReady", "Ready", "Err"}] :
        feed.rx # "NotReady" => feed.tx = "NotReady"}

\* SessionBuilder::build: the heartbeat option is unset or set; the
\* subscription map is empty or holds one subscription.
InitStomp ==
    /\ InitProgram
    /\ parsing = NoAddress
    /\ encoding = NoValue
    /\ stomp \in {Session_new(hb, subs) :
                    hb \in {<<0, 0>>, <<1000, 1000>>}, subs \in {{}, {SubId}}}

\* What reached a session that had failed already.
Late(s, what) == IF s.stream = "Failed" THEN s.late \cup what ELSE s.late

\* A feed the session `s` can meet: there is a connect future only while
\* connecting, a socket only until the stream is dropped, and a timer only
\* if one is armed or a CONNECTED frame of this poll may arm it.
Arms(feed) ==
    \E i \in 1..Len(feed.items) :
        /\ feed.items[i].t = "CompleteFrame"
        /\ feed.items[i].frame.command = "CONNECTED"

Meets(s, feed) ==
    /\ s.stream # "Connecting" => feed.connect = "NotReady"
    /\ s.stream = "Failed" => feed.end = "NotReady" /\ feed.send = "Ok"
    /\ feed.rx # "NotReady" => s.rx_heartbeat \/ Arms(feed)
    /\ feed.tx # "NotReady" => s.tx_heartbeat \/ Arms(feed)

\* One call of Stream::poll.
StompPoll ==
    /\ stomp.npoll < MaxPolls
    /\ \E feed \in Feeds :
          /\ Meets(stomp, feed)
          /\ stomp' = [poll(stomp, feed) EXCEPT
                          !.npoll = @ + 1,
                          !.late = Late(stomp, IF feed.items # << >> \/ feed.end # "NotReady"
                                               THEN {"data"} ELSE {})]
    /\ UNCHANGED <<vars, clientVars, parsing, encoding>>

\* MessageBuilder::send, with or without a receipt request.
StompMessage ==
    /\ stomp.nsend < MaxSends
    /\ \E io \in {"Ok", "Err"}, receipt \in {"none", SendReceipt} :
          LET s1 == IF receipt = "none" THEN stomp
                    ELSE [stomp EXCEPT !.outstanding_receipts = @ \cup {receipt}]
          IN  stomp' = [Session_send(s1, CompleteFrame(SendFrame(receipt)), io) EXCEPT
                           !.nsend = @ + 1, !.late = Late(stomp, {"send"})]
    /\ UNCHANGED <<vars, clientVars, parsing, encoding>>

\* Session::unsubscribe
StompUnsubscribe ==
    /\ stomp.nsend < MaxSends
    /\ \E io \in {"Ok", "Err"} :
          stomp' = [Session_send([stomp EXCEPT !.subscriptions = @ \ {SubId}],
                                 CompleteFrame(UnsubscribeFrame), io) EXCEPT
                       !.nsend = @ + 1, !.late = Late(stomp, {"send"})]
    /\ UNCHANGED <<vars, clientVars, parsing, encoding>>

\* Session::disconnect
StompDisconnect ==
    /\ stomp.nsend < MaxSends
    /\ \E io \in {"Ok", "Err"} :
          stomp' = [Session_send(stomp, CompleteFrame(DisconnectFrame), io) EXCEPT
                       !.nsend = @ + 1, !.late = Late(stomp, {"send"})]
    /\ UNCHANGED <<vars, clientVars, parsing, encoding>>

NextStomp ==
    \/ StompPoll
    \/ StompMessage
    \/ StompUnsubscribe
    \/ StompDisconnect

SpecStomp == InitStomp /\ [][NextStomp]_libVars

(* =========================== header values, run ======================= *)
Values == UNION {[1..n -> ValueChars] : n \in 0..MaxValueLen}

InitHeader ==
    /\ InitProgram
    /\ parsing = NoAddress
    /\ stomp = Session_new(<<0, 0>>, {})
    /\ encoding \in {[NoValue EXCEPT !.step = "value", !.value = v] : v \in Values}

\* Header::encode_value(value)
EncodeValue ==
    /\ encoding.step = "value"
    /\ encoding' = [encoding EXCEPT !.step = "encoded",
                                    !.encoded = encode_value(encoding.value)]
    /\ UNCHANGED <<vars, clientVars, parsing, stomp>>

NextHeader == EncodeValue

SpecHeader == InitHeader /\ [][NextHeader]_libVars

(* ============================== claims ================================ *)
\* The public key a parseable `from` text names.
FromKey(req) == from_str_raw(req.from).public_key

Parseable(t) == from_str_raw(t).res = "Ok"

\* The signature text is the hex of a signature by the sender's key over
\* `str` or over `str` followed by the relay's challenge.
SignedByFrom(req) ==
    req.signature \in {Sign(req.str, FromKey(req)),
                       Sign(req.str \o get_challenge_raw, FromKey(req))}

\* The signature text of a Subscribe is the hex of a signature over the
\* challenge by the key the address text decodes to.
SubscribeVerifies(req) ==
    req.address \in Keys /\ req.signature = Sign(get_challenge_raw, req.address)

\* The step is on_message handling request `last'.req` of `last'.conn`.
Handled == last'.n # last.n

HandledType(type) == Handled /\ last'.req.type = type

Answered(c, frame) == out'[c] = Append(out[c], frame)

\* The frames written to c so far include `frame`.
Wrote(c, frame) == \E i \in 1..Len(out[c]) : out[c][i] = frame

\* The connection whose Subscribe for `subject` was answered Ok last.
LastSubscriber(subject) ==
    LET S == {s \in 1..Len(sinks) : sinks[s].subject = subject}
    IN  IF S = {} THEN "none"
        ELSE sinks[CHOOSE s \in S : \A t \in S : t <= s].inner

\* C1: in every reachable state the subscription map of every connection
\* holds at most MAX_SUBSCRIPTIONS = 1 entry.
C1_AtMostOneSubscription ==
    \A c \in Conns : Cardinality(subscriptions[c]) <= 1

\* A subscribed connection has sent a second valid Subscribe and was refused.
C1_Witness ==
    /\ last.n > 0
    /\ last.req.type = "Subscribe"
    /\ SubscribeVerifies(last.req)
    /\ last.subs # {}
    /\ Cardinality(subscriptions[last.conn]) = 1
    /\ Wrote(last.conn, ErrorFrame("TooManySubscriptions"))

\* C2: a message accepted for subject A while connection C holds A, C being
\* the connection that subscribed to A last and not having unsubscribed or
\* closed since, is written to C as exactly one Slate frame: it is not
\* consumed and discarded, not written to another connection, not written twice.
C2_ExactlyOneSlate ==
    \A i \in 1..Len(due) : \A c \in due[i].conns :
        LastSubscriber(due[i].subject) = c
        => /\ i \notin gone
           /\ \A d \in delivered : d.id = i => d.conn = c
           /\ Cardinality({d \in delivered : d.id = i}) <= 1

\* C3: once the adapter has processed the Subscribe of B for a subject held
\* by A # B, every message accepted for the subject from then on, B staying
\* its last subscriber, goes to B only: it is not taken by A's consumer and
\* discarded, and it is written to no connection but B.
C3_EvictionHandsOver ==
    \A s \in 1..Len(sinks) :
        LET a == sinks[s]
            b == a.evictedBy
        IN  (b \notin {"none", a.inner})
            => \A i \in 1..Len(due) :
                  (/\ i >= a.evictedAt
                   /\ due[i].subject = a.subject
                   /\ b \in due[i].conns
                   /\ LastSubscriber(a.subject) = b)
                  => /\ i \notin gone
                     /\ \A d \in delivered : d.id = i => d.conn = b

\* C4: a PostSlate whose from/to parse is accepted (published or federated)
\* exactly when its signature verifies under the sender's key over the body
\* or over body || challenge; otherwise it is answered
\* Error(InvalidSignature) and nothing is published or federated.
C4_PostSlateSignature ==
    [][(HandledType("PostSlate")
            /\ Parseable(last'.req.from) /\ Parseable(last'.req.to))
       => IF SignedByFrom(last'.req)
          THEN nmsg' = nmsg + 1 /\ (Len(nats') = Len(nats) + 1 \/ fed'.st = "connecting")
          ELSE /\ Answered(last'.conn, ErrorFrame("InvalidSignature"))
               /\ UNCHANGED <<nats, fed, nmsg>>]_vars

\* C5: a Subscribe whose signature does not verify over the challenge under
\* the key of `address` is answered Error(InvalidSignature), whether or not
\* the connection is subscribed, and creates no subscription and no
\* broker request.
C5_SubscribeInvalidSignature ==
    [][(HandledType("Subscribe") /\ ~SubscribeVerifies(last'.req))
       => /\ Answered(last'.conn, ErrorFrame("InvalidSignature"))
          /\ UNCHANGED <<subscriptions, nats, sinks>>]_vars

\* C6: a validly signed Subscribe on a connection that holds a subscription
\* is answered Error(TooManySubscriptions), sends nothing to the adapter and
\* leaves the subscription, its sink, its consumer and the queues as they were.
C6_SecondSubscribeRefused ==
    [][(HandledType("Subscribe") /\ SubscribeVerifies(last'.req) /\ last'.subs # {})
       => /\ Answered(last'.conn, ErrorFrame("TooManySubscriptions"))
          /\ subscriptions'[last'.conn] = last'.subs
          /\ UNCHANGED <<subscriptions, nats, sinks, consumers, posting, queue, due>>]_vars

\* A refused second Subscribe, and after it a Slate written to the same
\* connection through the subscription it already held.
C6_Witness ==
    \E c \in Conns : \E i, j \in 1..Len(out[c]) :
        /\ i < j
        /\ out[c][i] = ErrorFrame("TooManySubscriptions")
        /\ out[c][j].type = "Slate"
        /\ subscriptions[c] # {}

\* C7: the first frame written to a connection is Challenge{str}; a Subscribe
\* on a connection without subscription whose signature verifies over str
\* enqueues Subscribe(connId, address, sink), registers the handler of that
\* sink for the connection, records the address and is answered Ok; a
\* Challenge request is answered Challenge{str} with the same str.
C7_ChallengeAndSubscribe ==
    [][/\ \A c \in Conns :
            out'[c] # << >> => out'[c][1] = [type |-> "Challenge", str |-> get_challenge_raw]
       /\ HandledType("Challenge")
            => Answered(last'.conn, [type |-> "Challenge", str |-> get_challenge_raw])
       /\ (HandledType("Subscribe") /\ SubscribeVerifies(last'.req) /\ last'.subs = {})
            => /\ Len(nats') = Len(nats) + 1
               /\ nats'[Len(nats')] =
                     [type |-> "Subscribe", id |-> last'.conn,
                      subject |-> last'.req.address, response_sender |-> Len(sinks')]
               /\ Len(sinks') = Len(sinks) + 1
               /\ sinks'[Len(sinks')].inner = last'.conn
               /\ sinks'[Len(sinks')].subject = last'.req.address
               /\ subscriptions'[last'.conn] = {last'.req.address}
               /\ Answered(last'.conn, OkFrame)]_vars

\* A connection asked for the challenge again and then subscribed.
C7_Witness ==
    /\ last.n > 0
    /\ last.req.type = "Subscribe"
    /\ last.subs = {}
    /\ subscriptions[last.conn] = {last.req.address}
    /\ out[last.conn] = <<ChallengeFrame, ChallengeFrame, OkFrame>>

\* C8: an accepted PostSlate is published to the adapter on subject
\* to.public_key, and not federated, when to.domain and to.port equal the
\* relay's; otherwise it is handed to federation and nothing is published.
C8_LocalOrFederated ==
    [][(HandledType("PostSlate") /\ nmsg' = nmsg + 1)
       => LET to == from_str_raw(last'.req.to)
          IN  IF to.domain = grinbox_domain /\ to.port = grinbox_port
              THEN /\ Len(nats') = Len(nats) + 1
                   /\ nats'[Len(nats')].type = "PostMessage"
                   /\ nats'[Len(nats')].subject = to.public_key
                   /\ fed' = fed
              ELSE /\ nats' = nats
                   /\ fed'.st = "connecting"
                   /\ fed'.url.domain = to.domain
                   /\ fed'.url.port = to.port]_vars

\* A post to the relay's own domain at another port went to federation.
C8_Witness ==
    /\ fed.st = "connecting"
    /\ fed.to_address.domain = grinbox_domain
    /\ fed.to_address.port # grinbox_port
    /\ nats = << >>

\* C9: the Slate written for a locally published PostSlate has from = the
\* stripped sender address, str and signature as posted, and challenge = ""
\* when the signature is over the body alone, else the relay's challenge.
C9_SlateFields ==
    \A d \in delivered :
        /\ d.frame =
             [type |-> "Slate",
              from |-> stripped(from_str_raw(d.req.from)),
              str |-> d.req.str,
              challenge |-> IF d.req.signature = Sign(d.req.str, FromKey(d.req))
                            THEN NoText ELSE get_challenge_raw,
              signature |-> d.req.signature]
        /\ Wrote(d.conn, d.frame)

\* A Slate for a post signed over body || challenge, from an address whose
\* text carried the scheme, was written.
C9_Witness ==
    \E d \in delivered :
        /\ d.frame.challenge = get_challenge_raw
        /\ d.req.from.scheme
        /\ ~d.frame.from.scheme

\* C10: the response to a federated PostSlate follows the peer's answer:
\* peer Ok gives Ok; peer Error, a socket error or a failed connect give
\* Error(UnknownError).
C10_FederatedResponse ==
    [][(fed.st # "idle" /\ fed'.st = "idle")
       => Answered(fed.conn, IF fed.peer = "Ok" THEN OkFrame
                             ELSE ErrorFrame("UnknownError"))]_vars

\* The number of Challenge frames among the frames received from the peer.
ChallengesSeen(e) == Cardinality({i \in 1..Len(e.frames) : e.frames[i] = "Challenge"})

\* C11: in a federation exchange a PostSlate goes to the peer only on the
\* peer's Challenge, one per Challenge, and carries from.stripped,
\* to.stripped and the body, signature and ttl of the originating request.
C11_FederatedPostVerbatim ==
    [][/\ fed'.st # "idle" =>
            /\ Len(fed'.sent) = ChallengesSeen(fed')
            /\ \A i \in 1..Len(fed'.sent) :
                  fed'.sent[i] =
                     [type |-> "PostSlate",
                      from |-> [Display(from_str_raw(last'.req.from)) EXCEPT !.scheme = FALSE],
                      to |-> [Display(from_str_raw(last'.req.to)) EXCEPT !.scheme = FALSE],
                      str |-> last'.req.str,
                      signature |-> last'.req.signature,
                      message_expiration_in_seconds |->
                          last'.req.message_expiration_in_seconds]
       /\ (fed.st # "idle" /\ fed'.st # "idle" /\ fed'.sent # fed.sent)
            => /\ Len(fed'.frames) = Len(fed.frames) + 1
               /\ fed'.frames[Len(fed'.frames)] = "Challenge"
               /\ fed'.sent = Append(fed.sent, fed'.sent[Len(fed'.sent)])]_vars

\* A post with a ttl, to an address given with the default port omitted,
\* was forwarded after the peer's Challenge.
C11_Witness ==
    /\ fed.st = "open"
    /\ Len(fed.sent) = 1
    /\ fed.sent[1].message_expiration_in_seconds = 60
    /\ fed.sent[1].to.port = NoPort
    /\ fed.frames = <<"Challenge">>

\* C12: a PostSlate that passed this relay's signature check and was
\* forwarded passes the signature check of the peer relay as well: the
\* peer's post_slate does not decide InvalidSignature on the forwarded frame.
C12_PeerAcceptsSignature ==
    fed.st # "idle"
    => /\ PostOutcome(get_challenge_raw, last.req) = "Accepted"
       /\ \A i \in 1..Len(fed.sent) :
             PostOutcome(peer_challenge_raw, fed.sent[i]) = "Accepted"

\* A post signed over body || challenge was forwarded to the peer.
C12_Witness ==
    /\ fed.st = "open"
    /\ fed.sent # << >>
    /\ fed.sent[1].signature = Sign(fed.sent[1].str \o get_challenge_raw, "pkB")

\* C13: every PostSlate to a non-local recipient is answered: the relay
\* is never stopped with a federation exchange begun and its response
\* not written, whatever the peer sends.
C13_FederatedPostAnswered ==
    ~(crashed /\ fed.st # "idle")

\* C14: sessions are isolated: whatever the request handled last on one
\* connection is doing (being federated) or has done (failed), a request
\* arriving on another open connection can be handled at once.
C14_SessionsIsolated ==
    \A c \in Conns :
        (cstate[c] = "open" /\ last.n > 0 /\ last.conn # c)
        => ENABLED OnMessage(c, ChallengeReq, MaxReq + 1)

\* C15: Unsubscribe{address} with the address in the connection's map
\* removes it, sends Unsubscribe(connId) to the adapter and is answered Ok;
\* with the address not in the map it is answered Error(InvalidRequest),
\* nothing is sent to the adapter and the map is unchanged.
C15_Unsubscribe ==
    [][HandledType("Unsubscribe")
       => LET c == last'.conn
              address == last'.req.address
          IN  IF address \in last'.subs
              THEN /\ subscriptions' = [subscriptions EXCEPT ![c] = @ \ {address}]
                   /\ nats' = Append(nats, [type |-> "Unsubscribe", id |-> c])
                   /\ Answered(c, OkFrame)
              ELSE /\ Answered(c, ErrorFrame("InvalidRequest"))
                   /\ UNCHANGED <<nats, subscriptions>>]_vars

\* A subscribed connection unsubscribed its address: the map is empty and
\* the adapter was sent the Subscribe and the Unsubscribe.
C15_Witness ==
    /\ last.n > 0
    /\ last.req.type = "Unsubscribe"
    /\ last.subs = {last.req.address}
    /\ subscriptions[last.conn] = {}
    /\ out[last.conn] = <<ChallengeFrame, OkFrame, OkFrame>>

\* No request handled on one connection changes the map of another.
OthersKeepSubscriptions ==
    [][Handled => \A c \in Conns \ {last'.conn} : subscriptions'[c] = subscriptions[c]]_vars

\* C16: once a connection that held a subscription has closed and the
\* adapter has processed every request it was sent, the adapter holds no
\* consumer for that connection.
C16_CloseReleasesConsumer ==
    \A c \in Conns :
        (cstate[c] = "closed" /\ nats = << >>)
        => \A k \in Keys : consumers[k] # 0 => sinks[consumers[k]].inner # c

\* C17: a frame that is not valid JSON or carries an unknown type is
\* answered Error(InvalidRequest); the connection stays open, its
\* subscription map and everything else the relay holds is unchanged, so
\* that later requests are handled as if the frame had not been sent.
C17_MalformedFrame ==
    [][HandledType("Malformed")
       => /\ Answered(last'.conn, ErrorFrame("InvalidRequest"))
          /\ cstate'[last'.conn] = "open"
          /\ ~crashed'
          /\ fed'.st = "idle"
          /\ UNCHANGED <<subscriptions, nats, sinks, consumers>>]_vars

\* A connection holding a subscription sent a malformed frame: it was
\* answered InvalidRequest, is open and holds the subscription still.
C17_Witness ==
    /\ last.n = 2
    /\ last.req.type = "Malformed"
    /\ last.subs # {}
    /\ cstate[last.conn] = "open"
    /\ subscriptions[last.conn] = last.subs
    /\ out[last.conn] = <<ChallengeFrame, OkFrame, ErrorFrame("InvalidRequest")>>

\* The address or signature text of a Subscribe or PostSlate does not parse.
Unparsable(req) ==
    CASE req.type = "Subscribe" ->
           from_base58_check_raw(req.address) = "Err" \/ req.signature.kind # "hex"
      [] req.type = "PostSlate" ->
           \/ ~Parseable(req.from)
           \/ ~Parseable(req.to)
           \/ req.signature.kind # "hex"
      [] OTHER -> FALSE

\* C18: no request crashes the relay, and every Subscribe or PostSlate
\* whose address or signature text cannot be parsed is answered
\* Error(InvalidRequest).
C18_NoRequestCrashes ==
    [][Handled
       => /\ ~crashed'
          /\ Unparsable(last'.req)
             => Answered(last'.conn, ErrorFrame("InvalidRequest"))]_vars

\* The handler events among the entries of a run's log.
OpenEvents == {"on_open", "on_reestablished"}

\* The entries of `log` that are in `kinds`, in order.
Only(log, kinds) == SelectSeq(log, LAMBDA e : e \in kinds)

\* C19: in every subscribe() run each successful open delivers exactly one
\* event, on_open at the first successful open and on_reestablished at
\* every later one, and these events are delivered nowhere else; so
\* on_open is delivered once and on_reestablished never before it.
C19_OpenThenReestablished ==
    \A r \in Runs :
        LET log == client[r].log
            opens == {i \in 1..Len(log) : log[i] = "open"}
        IN  /\ \A i \in opens :
                  /\ i < Len(log)
                  /\ log[i + 1] = IF \E j \in opens : j < i
                                  THEN "on_reestablished" ELSE "on_open"
            /\ \A i \in 1..Len(log) :
                  log[i] \in OpenEvents => i > 1 /\ log[i - 1] = "open"

\* A run that opened, lost the connection and opened again.
C19_Witness ==
    \E r \in Runs :
        Only(client[r].log, OpenEvents) = <<"on_open", "on_reestablished">>

\* C20: a failed loop iteration delivers on_dropped exactly when it is the
\* first one after a successful open, and on_dropped is delivered nowhere
\* else: never before the first open, never for a further consecutive
\* failure; so after on_open, on_dropped and on_reestablished alternate.
C20_DroppedOncePerLoss ==
    \A r \in Runs :
        LET log == client[r].log
            seen == Only(log, OpenEvents \cup {"on_dropped"})
        IN  /\ \A i \in 1..Len(log) :
                  log[i] = "fail" =>
                      ((i < Len(log) /\ log[i + 1] = "on_dropped")
                         <=> (i > 1 /\ log[i - 1] \in OpenEvents))
            /\ \A i \in 1..Len(log) :
                  log[i] = "on_dropped" => i > 1 /\ log[i - 1] = "fail"
            /\ \A i \in 1..Len(seen) :
                  seen[i] = IF i = 1 THEN "on_open"
                            ELSE IF i % 2 = 0 THEN "on_dropped"
                            ELSE "on_reestablished"

\* A run that failed before its first open, opened, lost the connection,
\* and failed once more: one on_dropped.
C20_Witness ==
    \E r \in Runs :
        /\ Only(client[r].log, {"open", "fail", "on_dropped"})
              = <<"fail", "open", "fail", "on_dropped", "fail">>

\* The failed iterations of a run since its last successful open.
FailsSinceOpen(log) ==
    LET opens == {i \in 1..Len(log) : log[i] = "open"}
        from == IF opens = {} THEN 0 ELSE CHOOSE i \in opens : \A j \in opens : j <= i
    IN  Cardinality({i \in from + 1..Len(log) : log[i] = "fail"})

\* C21: after the n-th consecutive failed attempt since the last successful
\* open (n from 0) the loop sleeps min(32, 2^n) seconds, for every n: the
\* thread reaches the sleep and the delay is 1, 2, 4, 8, 16 and then 32.
C21_BackoffDelay ==
    \A r \in Runs :
        /\ client[r].pc # "panicked"
        /\ client[r].pc = "sleeping" =>
              LET n == FailsSinceOpen(client[r].log) - 1
              IN  client[r].slept = IF n < 31 /\ 2^n < 32 THEN 2^n ELSE 32

\* C22: once unsubscribe() has been called on a client with one
\* subscribe() run, the run calls connect() no more and is_running() is
\* false.
C22_StopEndsLoop ==
    [][(nstop' > 0 /\ client'["r2"].pc = "idle")
       => /\ inner' = NoSender
          /\ nstop > 0 => client'["r1"].attempts = client["r1"].attempts]_clientVars

CloseEvents == {"on_close(Normal)", "on_close(Abnormal)"}

Received(r) == Len(client'[r].rcvd) = Len(client[r].rcvd) + 1

LastReceived(r) == client'[r].rcvd[Len(client'[r].rcvd)]

\* C24: on every connection the subscriber answers each Challenge{str}
\* with Subscribe{own public key, sign(str, own secret key)}, written to
\* that connection, and writes nothing for any other frame.
C24_ChallengeAnswered ==
    [][\A r \in Runs :
          Received(r) =>
             LET f == LastReceived(r).frame
             IN  client'[r].sent =
                    IF f.type = "Challenge"
                    THEN Append(client[r].sent,
                                [n |-> client[r].attempts,
                                 req |-> [type |-> "Subscribe", address |-> "pkA",
                                          signature |-> Sign(f.str, "pkA")]])
                    ELSE client[r].sent]_clientVars

\* The subscription was issued on the first connection and, for another
\* challenge text, again on the second.
C24_Witness ==
    \E r \in Runs :
        /\ Len(client[r].sent) = 2
        /\ client[r].sent[1].n = 1
        /\ client[r].sent[2].n = 2
        /\ client[r].sent[1].req.signature # client[r].sent[2].req.signature

\* The proof of a Slate frame verifies: sender and signature parse, the
\* signature is the sender's over str and challenge, and the text is a
\* slate encrypted for the subscriber.
ProofVerifies(f) ==
    /\ Parseable(f.from)
    /\ f.signature.kind = "hex"
    /\ f.signature = Sign(f.str \o f.challenge, from_str_raw(f.from).public_key)
    /\ f.str = GoodBody

\* C25: whatever frame the subscriber handles, the connection stays open
\* and the reconnect path is not entered; on_slate is invoked exactly for
\* the Slate frames whose proof verifies, and a Slate whose proof fails, an
\* Error frame and an unparsable frame are dropped.
C25_BadFramesDropped ==
    [][\A r \in Runs :
          Received(r) =>
             LET f == LastReceived(r).frame
             IN  /\ client'[r].pc = "connected"
                 /\ client'[r].log =
                       IF f.type = "Slate" /\ ProofVerifies(f)
                       THEN Append(client[r].log, "on_slate")
                       ELSE client[r].log]_clientVars

\* C26: at any time at most one reconnect loop thread is alive and at most
\* one connection to the relay is open.
C26_OneLoopOneSession ==
    /\ Cardinality({r \in Runs : client[r].pc \notin {"idle", "exited", "panicked"}}) <= 1
    /\ Cardinality({r \in Runs : client[r].pc = "connected"}) <= 1

\* The consumer the adapter finds when it looks a connection id up, as its
\* Unsubscribe branch does: the entry of `consumers` under that key.
ConsumerOfConn(id) == IF id \in DOMAIN consumers THEN consumers[id] ELSE 0

\* C27: between adapter operations, the adapter finds a consumer with
\* subject s under a connection id if and only if it finds that
\* connection's consumer under subject s.
C27_TablesConsistent ==
    \A c \in Conns, k \in Keys :
        (ConsumerOfConn(c) # 0 /\ sinks[ConsumerOfConn(c)].subject = k)
        <=> (consumers[k] # 0 /\ sinks[consumers[k]].inner = c)

\* The adapter handles an Unsubscribe in this step.
AdapterUnsubscribes ==
    /\ nats # << >>
    /\ Head(nats).type = "Unsubscribe"
    /\ nats' = Tail(nats)

\* The subjects under which the adapter holds a consumer of connection c.
HeldFor(c) == {k \in Keys : consumers[k] # 0 /\ sinks[consumers[k]].inner = c}

C29_OrderKept ==
    \A d \in delivered :
        \A i \in 1..(d.id - 1) :
            \/ i \in gone
            \/ \E e \in delivered : e.id = i

\* One response frame, and nothing else, is added to what was written to c.
OneResponse(c) ==
    /\ Len(out'[c]) = Len(out[c]) + 1
    /\ SubSeq(out'[c], 1, Len(out[c])) = out[c]
    /\ out'[c][Len(out'[c])].type \in {"Ok", "Error", "Challenge"}

\* C30: every request is answered with exactly one response frame, written
\* after the responses of the requests before it: by the handler itself,
\* or, for a federated PostSlate, when its exchange with the peer ends
\* (no other request is handled in between).
C30_OneResponsePerRequest ==
    [][/\ (Handled /\ fed'.st = "idle") => OneResponse(last'.conn)
       /\ (Handled /\ fed'.st # "idle") => out' = out
       /\ (fed.st # "idle" /\ fed'.st = "idle") => OneResponse(fed.conn)]_vars

\* The consumers that have taken message i from its queue.
TakenBy(i) ==
    {s \in 1..Len(sinks) :
        \/ \E j \in 1..Len(sinks[s].stream) : sinks[s].stream[j].id = i
        \/ \E j \in 1..Len(sinks[s].q) : sinks[s].q[j].id = i
        \/ \E d \in delivered : d.id = i /\ d.sink = s}

\* C31: a message accepted for a subject while no connection is subscribed
\* to it waits in the subject's queue for a connection that subscribes
\* afterwards: it is taken from the queue only by the consumer of a
\* Subscribe handled after the message was accepted, and it is written as
\* at most one Slate frame.
C31_StoreAndForward ==
    \A i \in 1..Len(due) :
        due[i].offline
        => /\ \A s \in TakenBy(i) : sinks[s].since >= i
           /\ Cardinality({d \in delivered : d.id = i}) <= 1

\* A canonical address text: `grinbox://`, a key that decodes, then
\* nothing, or `@domain` with a domain other than the default one, or
\* `@domain:port` with the port a u16 other than 443 in decimal without
\* leading zeros.
Canonical(w) ==
    /\ w.matches
    /\ w.scheme
    /\ w.pk \in Keys
    /\ w.domain = NoDomain => ~w.hasPort
    /\ w.domain = DEFAULT_GRINBOX_DOMAIN => w.hasPort
    /\ w.hasPort
       => /\ w.digits # << >>
          /\ Len(w.digits) > 1 => w.digits[1] # 0
          /\ DigitsValue(w.digits) <= U16_MAX
          /\ DigitsValue(w.digits) # DEFAULT_GRINBOX_PORT

\* The text without its `grinbox://`.
Unprefixed(w) == [w EXCEPT !.scheme = FALSE]

\* C32: a canonical address text parses, is formatted back to itself and
\* stripped to itself without the prefix, and parses to the same address
\* without the prefix.
C32_AddressRoundTrip ==
    Canonical(parsing.text)
    => /\ parsing.step # "panicked"
       /\ parsing.step # "text"
          => /\ parsing.parsed.res = "Ok"
             /\ parsing.parsed = from_str_raw(captures(Unprefixed(parsing.text)))
       /\ parsing.step \in {"shown", "both"} => parsing.shown = parsing.text
       /\ parsing.step \in {"stripped", "both"}
          => parsing.stripped = Unprefixed(parsing.text)

\* A canonical text with a domain and a four-digit port has been parsed,
\* formatted and stripped.
C32_Witness ==
    /\ Canonical(parsing.text)
    /\ parsing.step = "both"
    /\ parsing.text.domain = "h.example"
    /\ Len(parsing.text.digits) = 4

\* C33: the reconnect loop thread holds no mutex while it sleeps.
C33_NoLockWhileSleeping ==
    \A r \in Runs : client[r].pc = "sleeping" => client[r].holds = {}

\* C34: once the adapter has processed the Subscribe a connection sent
\* after its Unsubscribe of the same address, every message accepted for
\* the subject from then on, the connection staying subscribed and the
\* subject's last subscriber, is not consumed and discarded and is written
\* to that connection, once.
C34_ResubscribeReceives ==
    \A s \in 1..Len(sinks) :
        LET a == sinks[s]
            c == a.inner
        IN  a.evictedBy = c
            => \A i \in 1..Len(due) :
                  (/\ i >= a.evictedAt
                   /\ due[i].subject = a.subject
                   /\ c \in due[i].conns
                   /\ LastSubscriber(a.subject) = c)
                  => /\ i \notin gone
                     /\ \A d \in delivered : d.id = i => d.conn = c
                     /\ Cardinality({d \in delivered : d.id = i}) <= 1

\* The Disconnected events a session has queued or returned.
Disconnects(s) ==
    Len(SelectSeq(s.emitted \o s.events, LAMBDA e : e.ev = "Disconnected"))

\* C35: a broker session whose stream has ended stays Failed: from then on
\* nothing is written to the socket, no event is queued (the queue only
\* drains into what poll returns), and the session has queued or returned
\* exactly one Disconnected event; before that it has none.  No message
\* event comes after the Disconnected event, also not for data that was
\* ready in the poll that saw the stream end.
C35_FailedForGood ==
    [][/\ stomp.stream = "Failed"
          => /\ stomp'.stream = "Failed"
             /\ stomp'.written = stomp.written
             /\ stomp'.emitted \o stomp'.events = stomp.emitted \o stomp.events
       /\ Disconnects(stomp') = IF stomp'.stream = "Failed" THEN 1 ELSE 0
       /\ LET all == stomp'.emitted \o stomp'.events
          IN  \A i, j \in 1..Len(all) :
                 (i < j /\ all[i].ev = "Disconnected")
                 => all[j].ev \notin {"Message", "Subscriptionless"}]_libVars

\* A failed session was sent something and was polled with data ready,
\* and poll has returned its Disconnected event.
C35_Witness ==
    /\ stomp.stream = "Failed"
    /\ stomp.late = {"data", "send"}
    /\ stomp.events = << >>
    /\ Disconnects(stomp) = 1

\* The escape of one character.
EscapeChar(ch) ==
    CASE ch = BSL -> <<BSL, BSL>>
      [] ch = CR -> <<BSL, "r">>
      [] ch = LF -> <<BSL, "n">>
      [] ch = COLON -> <<BSL, "c">>
      [] OTHER -> <<ch>>

\* C36: the encoded value is the value with every backslash, carriage
\* return, line feed and colon replaced by its two-character escape and
\* every other character kept, in order.
C36_EncodeValue ==
    encoding.step = "encoded"
    => encoding.encoded =
          Flatten([i \in 1..Len(encoding.value) |-> EscapeChar(encoding.value[i])])

\* C37: when the adapter has processed every request sent to it, an
\* address is in a connection's subscription map exactly when the adapter
\* holds a consumer of that connection under that subject.
C37_MapMatchesConsumers ==
    nats = << >>
    => \A c \in Conns, k \in Keys : k \in subscriptions[c] <=> k \in HeldFor(c)

\* C38: no message is taken from its queue and then discarded: every
\* message a consumer has taken is on its way to the socket or written.
C38_NoMessageDiscarded == gone = {}

\* C39: a Subscribe, Unsubscribe or PostSlate request answered with an
\* Error of any kind leaves the connection's subscription map and the
\* consumers the adapter holds, or is yet to be told to hold or drop, as
\* they were before the request.
C39_ErrorChangesNothing ==
    [][(/\ Handled
        /\ last'.req.type \in {"Subscribe", "Unsubscribe", "PostSlate"}
        /\ Len(out'[last'.conn]) = Len(out[last'.conn]) + 1
        /\ out'[last'.conn][Len(out'[last'.conn])].type = "Error")
       => UNCHANGED <<subscriptions, nats, consumers, sinks>>]_vars

\* C40: with one subscribe() call made, is_running() is true from the
\* return of subscribe() until unsubscribe() is called or the reconnect
\* loop has exited, and false once the loop has exited.
C40_IsRunning ==
    client["r2"].pc = "idle"
    => /\ (/\ client["r1"].pc \notin {"idle", "exiting", "exited", "panicked"}
           /\ nstop = 0)
          => is_running
       /\ client["r1"].pc \in {"exiting", "exited"} => ~is_running

====
